---- MODULE Spec2Model ----
(***************************************************************************)
(* Model of the candidate-server retry loop (selection.py, executor.py,    *)
(* graph.py, main.py), of the JSON-RPC connector (mcp_client.py) and of    *)
(* the header-negotiated client (smoke.py).                                *)
(*                                                                         *)
(* Spec      : the graph select -> invoke -> (pick_next -> invoke)* -> END *)
(* LiveSpec  : Spec with weak fairness of the graph's node steps           *)
(* ConnSpec  : one MCPConnector: callers, the SSE reader, shutdown         *)
(* SmokeSpec : the header-negotiated client of smoke.py                    *)
(* DriveSpec : one connector as invoke_server_node opens, drives and       *)
(*             leaves it, each POST probing the endpoint variants          *)
(* ParseSpec : one call of a snapshot helper of executor.py                *)
(***************************************************************************)
EXTENDS Integers, Sequences, FiniteSets, TLC

(***************************************************************************)
(* Bounds of the model.                                                    *)
(***************************************************************************)
MaxServers == 2      \* servers in the catalog
MaxCalls == 2        \* _rpc calls issued on one connector
MaxTime == 4         \* last clock value the model lets time.time() reach
RandBits == 2        \* random.random() draws k / 2^RandBits (CPython: 53)

(***************************************************************************)
(* Program constants.                                                      *)
(***************************************************************************)
TopK == 5                 \* ranked[:5]
MinBudget == 5            \* max(5, len(filtered) * 2)
BackoffBaseSeconds == 2   \* 2.0 * (1 + random.random())
MainMaxAttempts == 3      \* main.py's initial "max_attempts"

Min(a, b) == IF a <= b THEN a ELSE b
Max(a, b) == IF a >= b THEN a ELSE b

RECURSIVE Pow2(_)
Pow2(n) == IF n <= 0 THEN 1 ELSE 2 * Pow2(n - 1)

(***************************************************************************)
(* Clock.  random() has RandBits fraction bits and a double in [1, 2) has  *)
(* one bit less (53 and 52 in CPython), so 1 + random() is rounded to the  *)
(* nearest double, ties to even.  One tick of the model's clock is the     *)
(* spacing of the doubles in [2, 4), the binade the delay lies in.         *)
(***************************************************************************)
RandUnits == Pow2(RandBits)
TicksPerSecond == Pow2(RandBits - 2)
BackoffBase == BackoffBaseSeconds * TicksPerSecond

\* round-half-to-even of n / 2
RoundHalfEven(n) ==
    IF n % 2 = 0 THEN n \div 2
    ELSE IF ((n - 1) \div 2) % 2 = 0 THEN (n - 1) \div 2 ELSE (n + 1) \div 2

\* wait = 2.0 * (1 + random.random()), in ticks, for random() = k / RandUnits:
\* 1 + k/RandUnits is (RandUnits + k) units of 1/RandUnits, rounded to the
\* doubles of [1, 2] (units of 2/RandUnits); the product with 2.0 is exact.
\* mutant of BackoffWait: the "1 +" forgotten
BackoffWait_nobase(k) == RoundHalfEven(k)

BackoffWait(k) == RoundHalfEven(RandUnits + k)

(***************************************************************************)
(* State of the graph run (registry.AgentState) and of the model's clock.  *)
(***************************************************************************)
VARIABLES
    servers,        \* catalog: sequence of [id, healthy, browser, tools]
    targets,        \* sequence of target urls
    shortlist,      \* sequence of [server_id, score, reason]
    idx,            \* cursor into the shortlist
    attempts,       \* attempt counter
    max_attempts,   \* attempt budget
    last_error,     \* [kind, server]; kind "none" is the empty string
    result,         \* [populated, server, outputs]
    backoff_until,  \* function: server id -> timestamp, on the ids it holds
    node,           \* graph position: select, invoke, pick_next, done, aborted
    now,            \* time.time()
    sel,            \* locals of the last select_candidates_node run
    turn,           \* what the last invoke_server_node run did
    invokes         \* invoke_server_node runs of this graph run

loopVars == <<servers, targets, shortlist, idx, attempts, max_attempts,
              last_error, result, backoff_until, node, now, sel, turn, invokes>>

(***************************************************************************)
(* State of one MCPConnector (mcp_client.py).                              *)
(***************************************************************************)
VARIABLES
    _next_id,       \* the value next(self._id) returns
    _pending,       \* keys of self._pending: the rpc ids that hold a waiter
    fut,            \* the future of each rpc id: [state, obj, n]
    call,           \* where the _rpc coroutine of each rpc id stands
    _session,       \* "open" or "None": self._session
    _sse_task,      \* the reader task: running, ended, crashed, cancelled
    _session_id,    \* self._session_id, "None" until captured
    closing,        \* how far _shutdown has come
    ev              \* the delivery the last step handled, if it was one: [op, id, sid]

connVars == <<_next_id, _pending, fut, call, _session, _sse_task, _session_id,
              closing, ev>>

(***************************************************************************)
(* State of the header-negotiated client (smoke.py, main).                 *)
(***************************************************************************)
VARIABLES
    spc,            \* where main stands: initialize, notify, list, call, done, failed
    tried,          \* candidates of PROTO_CANDIDATES the for loop of initialize is past
    proto,          \* the negotiated protocol version, "None" before
    sid,            \* the session id of the Mcp-Session-Id header, "None" without
    sent,           \* the requests POSTed so far: [method, proto, sid]
    failure,        \* the RuntimeError that left main, "none" without
    warned          \* notifications/initialized failed and main went on

smokeVars == <<spc, tried, proto, sid, sent, failure, warned>>

(***************************************************************************)
(* invoke_server_node with the connector it opens, and the POST probing of *)
(* the call that connector has in progress (mcp_client.py, executor.py).   *)
(***************************************************************************)
VARIABLES
    drv,                  \* how far the async with has come: new, entered, failed
    _last_working_label,  \* self._last_working_label, "None" until one is remembered
    variants,             \* the labels _post_variants() gave the _post_rpc in progress
    pos,                  \* how many of them the for loop of _post_rpc has POSTed to
    resp                  \* the last of these POSTs: its status and what was decoded

driveVars == <<drv, _last_working_label, variants, pos, resp>>

(***************************************************************************)
(* One call of a snapshot helper of executor.py.                           *)
(***************************************************************************)
VARIABLES
    fn,             \* the helper that was called, "none" before the call
    arg,            \* its input: a snapshot tree, a verdict text or a screen
    ret             \* what it returned

parseVars == <<fn, arg, ret>>

(***************************************************************************)
(* One call of try_visit of executor.py, from one call_tool to the next.   *)
(***************************************************************************)
VARIABLE
    visit           \* the locals of try_visit and the await it stands at

\* what a step of one component leaves alone
notLoop == <<connVars, smokeVars, driveVars, parseVars, visit>>
notConn == <<loopVars, smokeVars, driveVars, parseVars, visit>>
notSmoke == <<loopVars, connVars, driveVars, parseVars, visit>>
notRpc == <<loopVars, smokeVars, parseVars, visit>>
notParse == <<loopVars, connVars, smokeVars, driveVars, visit>>
notVisit == <<loopVars, connVars, smokeVars, driveVars, parseVars>>

(***************************************************************************)
(* Python values of the tool catalog: tools/list returns dicts with a      *)
(* "name"; MCPConnector.list_tools keeps the names, as strings.            *)
(***************************************************************************)
PyStr(s) == [type |-> "str", val |-> s]

\* what tools/list may return: the "name" of each tool dict
ToolCatalogs ==
    { {}, {"browser_navigate", "browser_snapshot", "browser_click"} }

\* mcp_client.py list_tools: available_tools = {t.get("name") for t in tools if t.get("name")}
list_tools(listed) == { PyStr(n) : n \in listed }

\* executor.py: {t.get("name") for t in tools if isinstance(t, dict) and "name" in t}
ExecToolNames(tools) ==
    { t.val.name : t \in { x \in tools : x.type = "dict" /\ "name" \in DOMAIN x.val } }

\* executor.py _pick over a set of names: the first candidate present, or "None"
RECURSIVE _pick(_, _)
_pick(tools, candidates) ==
    IF candidates = << >> THEN "None"
    ELSE IF Head(candidates) \in tools THEN Head(candidates)
    ELSE _pick(tools, Tail(candidates))

\* executor.py build_actions raises RuntimeError("No open/navigate tool found")
BuildActionsRaises(tool_names) ==
    /\ _pick(tool_names, <<"browser_tab_new">>) = "None"
    /\ _pick(tool_names, <<"browser_navigate">>) = "None"

(***************************************************************************)
(* Values of the agent state.                                              *)
(***************************************************************************)
NoError == [kind |-> "none", server |-> 0]
Err(k, s) == [kind |-> k, server |-> s]
EmptyResult == [populated |-> FALSE, server |-> 0, outputs |-> << >>]
NoTurn == [kind |-> "none", server |-> 0, opened |-> FALSE, listed |-> {},
           visit |-> "none", click |-> "none", page |-> << >>, wait |-> 0, fails |-> 0]
NoSel == [ran |-> FALSE, kept |-> << >>, fallback |-> FALSE, reset |-> FALSE]

\* dict.get(key, default) / pop(key, None) / d[key] = v on backoff_until
BackoffGet(b, id, default) == IF id \in DOMAIN b THEN b[id] ELSE default
BackoffPop(b, id) == [s \in DOMAIN b \ {id} |-> b[s]]
BackoffSet(b, id, t) == [s \in DOMAIN b \cup {id} |-> IF s = id THEN t ELSE b[s]]

Ids(entries) == { entries[i].server_id : i \in 1..Len(entries) }

(***************************************************************************)
(* selection.py                                                            *)
(***************************************************************************)
\* the entries for the servers ss, each with the score tenths, or with
\* llm_chat_fn's score when tenths = 0 (in tenths: 0.6 + 0.4 * has_browser_tag)
RECURSIVE MapEntries(_, _, _)
\* mutant of MapEntries: each entry names the id after its server's
MapEntries_shifted(ss, tenths, why) ==
    [i \in 1..Len(ss) |-> [server_id |-> ss[i].id + 1, score |-> 7, reason |-> why]]

MapEntries(ss, tenths, why) ==
    LET Score(s) == IF s.browser THEN 10 ELSE 6
        Entry(s, sc) == [server_id |-> s.id, score |-> sc, reason |-> why]
    IN IF ss = << >> THEN << >>
       ELSE <<Entry(Head(ss), IF tenths = 0 THEN Score(Head(ss)) ELSE tenths)>>
            \o MapEntries(Tail(ss), tenths, why)

\* llm_chat_fn: rank every server of the prompt, stable sort by score,
\* highest first, keep the first five
llm_chat_fn(ss) ==
    LET ranked == MapEntries(SelectSeq(ss, LAMBDA s : s.browser), 0, "stub")
                  \o MapEntries(SelectSeq(ss, LAMBDA s : ~s.browser), 0, "stub")
    IN SubSeq(ranked, 1, Min(TopK, Len(ranked)))

\* any(s["id"] == x["server_id"] and s.get("healthy", True) for s in servers)
IsHealthyServer(ss, id) == \E i \in 1..Len(ss) : ss[i].id = id /\ ss[i].healthy

\* the backoff half of the filter: backoff_until.get(server_id, 0) <= now
\* mutant of BackoffElapsed: an entry that ends now still counts as backoff
BackoffElapsed_strict(b, id, t) == BackoffGet(b, id, 0) < t

BackoffElapsed(b, id, t) == BackoffGet(b, id, 0) <= t

RECURSIVE FilterEntries(_, _, _, _)
FilterEntries(entries, ss, b, t) ==
    IF entries = << >> THEN << >>
    ELSE LET x == Head(entries)
             rest == FilterEntries(Tail(entries), ss, b, t)
         IN IF IsHealthyServer(ss, x.server_id) /\ BackoffElapsed(b, x.server_id, t)
            THEN <<x>> \o rest ELSE rest

\* the fallback list: every healthy server of the catalog, score 0.7
HealthyFallback(ss) == MapEntries(SelectSeq(ss, LAMBDA s : s.healthy), 7, "fallback")

\* mutant of Budget: no floor of MinBudget
Budget_nofloor(filtered) == 2 * Len(filtered)

\* mutant of Budget: as many attempts as candidates
Budget_len(filtered) == Len(filtered)

\* the attempt budget Select sets
Budget(filtered) == Max(MinBudget, Len(filtered) * 2)

select_candidates_node ==
    /\ node = "select"
    /\ LET raw == llm_chat_fn(servers)
           ranked == IF raw = << >> THEN MapEntries(servers, 7, "no-llm") ELSE raw
           kept == FilterEntries(ranked, servers, backoff_until, now)
           filtered == IF kept = << >> THEN HealthyFallback(servers) ELSE kept
       IN /\ shortlist' = filtered
          /\ idx' = 0
          /\ attempts' = 0
          /\ max_attempts' = Budget(filtered)
          /\ sel' = [ran |-> TRUE, kept |-> kept, fallback |-> (kept = << >>),
                      reset |-> (idx # 0 /\ attempts # 0 /\ max_attempts # Budget(filtered))]
    /\ node' = "invoke"
    /\ invokes' = 0
    /\ UNCHANGED <<servers, targets, last_error, result, backoff_until, now, turn>>
    /\ UNCHANGED notLoop

(***************************************************************************)
(* executor.py                                                             *)
(***************************************************************************)
\* find_server: index of the first server with that id, 0 for KeyError
find_server(ss, id) ==
    IF \E i \in 1..Len(ss) : ss[i].id = id
    THEN CHOOSE i \in 1..Len(ss) : ss[i].id = id /\ \A j \in 1..(i - 1) : ss[j].id # id
    ELSE 0

\* the per-server backoff check: until and now < until
\* mutant of BackoffInEffect: the comparison the wrong way round
BackoffInEffect_flipped(b, id, t) == BackoffGet(b, id, 0) # 0 /\ t > BackoffGet(b, id, 0)

BackoffInEffect(b, id, t) == BackoffGet(b, id, 0) # 0 /\ t < BackoffGet(b, id, 0)

should_continue(res, att, maxatt, i, sl) ==
    IF res.populated THEN "done"
    ELSE IF att >= maxatt THEN "done"
    ELSE IF i >= Len(sl) THEN "done"
    ELSE "loop"

Route(res) ==
    IF should_continue(res, attempts, max_attempts, idx, shortlist) = "done"
    THEN "done" ELSE "pick_next"

\* ---- Python str --------------------------------------------------------
\* the texts of the model, and each of them character by character
Texts ==
    {"", " ", " ok ", "ok", "PASS: success", "pass",
     "Passed", "PaSs", "bypass", "FAIL: bot", "failed", "Error 500",
     "ERROR", "fail, then pass", "error: not passed", "pending", "p a s s", "fai",
     "fail", "error", "Verify Now By Zhen", "Other"}

Chars(s) ==
    CASE s = "" -> << >>
      [] s = " " -> <<" ">>
      [] s = " ok " -> <<" ", "o", "k", " ">>
      [] s = "ok" -> <<"o", "k">>
      [] s = "PASS: success" -> <<"P", "A", "S", "S", ":", " ", "s", "u", "c", "c", "e", "s", "s">>
      [] s = "pass" -> <<"p", "a", "s", "s">>
      [] s = "Passed" -> <<"P", "a", "s", "s", "e", "d">>
      [] s = "PaSs" -> <<"P", "a", "S", "s">>
      [] s = "bypass" -> <<"b", "y", "p", "a", "s", "s">>
      [] s = "FAIL: bot" -> <<"F", "A", "I", "L", ":", " ", "b", "o", "t">>
      [] s = "failed" -> <<"f", "a", "i", "l", "e", "d">>
      [] s = "Error 500" -> <<"E", "r", "r", "o", "r", " ", "5", "0", "0">>
      [] s = "ERROR" -> <<"E", "R", "R", "O", "R">>
      [] s = "fail, then pass" -> <<"f", "a", "i", "l", ",", " ", "t", "h", "e", "n", " ", "p", "a", "s", "s">>
      [] s = "error: not passed" -> <<"e", "r", "r", "o", "r", ":", " ", "n", "o", "t", " ", "p", "a", "s", "s", "e", "d">>
      [] s = "pending" -> <<"p", "e", "n", "d", "i", "n", "g">>
      [] s = "p a s s" -> <<"p", " ", "a", " ", "s", " ", "s">>
      [] s = "fai" -> <<"f", "a", "i">>
      [] s = "fail" -> <<"f", "a", "i", "l">>
      [] s = "error" -> <<"e", "r", "r", "o", "r">>
      [] s = "Verify Now By Zhen" -> <<"V", "e", "r", "i", "f", "y", " ", "N", "o", "w", " ", "B", "y", " ", "Z", "h", "e", "n">>
      [] s = "Other" -> <<"O", "t", "h", "e", "r">>
      [] s = "e2" -> <<"e", "2">>
      [] s = "e4" -> <<"e", "4">>
      [] s = "s1e5" -> <<"s", "1", "e", "5">>

\* the letters: Letters.upper[i] is the capital of Letters.lower[i]
Letters ==
    [upper |-> <<"A", "B", "C", "D", "E", "F", "G", "H", "I", "J", "K", "L", "M",
                 "N", "O", "P", "Q", "R", "S", "T", "U", "V", "W", "X", "Y", "Z">>,
     lower |-> <<"a", "b", "c", "d", "e", "f", "g", "h", "i", "j", "k", "l", "m",
                 "n", "o", "p", "q", "r", "s", "t", "u", "v", "w", "x", "y", "z">>]

\* str.lower()
Lower(cs) ==
    LET LowerChar(c) ==
            IF \E i \in 1..26 : Letters.upper[i] = c
            THEN Letters.lower[CHOOSE i \in 1..26 : Letters.upper[i] = c]
            ELSE c
    IN [i \in 1..Len(cs) |-> LowerChar(cs[i])]

\* "w in s" for two strings
IsSubstring(w, cs) ==
    \E i \in 0..(Len(cs) - Len(w)) : SubSeq(cs, i + 1, i + Len(w)) = w

\* str.strip(): the text from its first to its last character that is no
\* whitespace
strip(s) ==
    LET cs == Chars(s)
        solid == { i \in 1..Len(cs) : cs[i] # " " }
        first == CHOOSE i \in solid : \A j \in solid : i <= j
        last == CHOOSE i \in solid : \A j \in solid : j <= i
        stripped == IF solid = {} THEN << >> ELSE SubSeq(cs, first, last)
    IN CHOOSE text \in Texts : Chars(text) = stripped

\* ---- try_visit -----------------------------------------------------------
\* the verdict snapshot and its retries: 1 + v_retries captures
VerdictRetries == 2
VerdictPass == "PASS: success"

\* what extract_text_by_id(root2, "verdict") finds in each verdict snapshot the
\* page would show: "None" (no such node), "" (node without text) or the text
NoPage == [i \in 1..(VerdictRetries + 1) |-> "None"]

\* mutant of ContainsWord: the text is not lowered
ContainsWord_cased(text, word) == IsSubstring(Chars(word), Chars(text))

\* low = verdict.lower(); "pass" in low / "fail" in low / "error" in low
ContainsWord(text, word) == IsSubstring(Chars(word), Lower(Chars(text)))

\* parse_verdict_text: "yes", "no" or "None" for success
parse_verdict_text(verdict) ==
    IF verdict \in {"None", ""} THEN [success |-> "None", raw |-> verdict]
    ELSE IF ContainsWord(verdict, "pass") THEN [success |-> "yes", raw |-> verdict]
    ELSE IF ContainsWord(verdict, "fail") \/ ContainsWord(verdict, "error")
         THEN [success |-> "no", raw |-> verdict]
    ELSE [success |-> "None", raw |-> verdict]

\* the while v_retries > 0 loop: snapshot i is examined, and re-captured as
\* snapshot i + 1 when it has no verdict text
RECURSIVE VerdictLoop(_, _, _, _)
VerdictLoop(page, i, v_retries, verdict_text) ==
    IF v_retries = 0 THEN verdict_text
    ELSE LET text == page[i]
         IN IF text \notin {"None", ""} THEN text
            ELSE VerdictLoop(page, i + 1, v_retries - 1, text)

NoOutput == [visited |-> FALSE, clicked |-> FALSE, verdict |-> "None",
             verdict_struct |-> [success |-> "None", raw |-> "None"]]

\* try_visit for a page whose first snapshot shows the button and whose calls
\* outside the try blocks do not raise: the out dict, reduced to what the
\* verdict part leaves in it. click tells whether the click and key-press
\* calls return ("ok") or raise, each of them ("raise")
try_visit(available_tools, page, click) ==
    LET tool_names == ExecToolNames(available_tools)
        snap_tool == _pick(tool_names, <<"browser_snapshot">>)
        click_tool == _pick(tool_names, <<"browser_click">>)
        key_tool == _pick(tool_names, <<"browser_press_key">>)
        clicked == (click_tool # "None" /\ click = "ok") \/ (key_tool # "None" /\ click = "ok")
        verdict_text == IF snap_tool # "None"
                        THEN VerdictLoop(page, 1, VerdictRetries, "None")
                        ELSE "None"
    IN IF snap_tool = "None" \/ ~clicked
       THEN [NoOutput EXCEPT !.visited = TRUE]
       ELSE [visited |-> TRUE, clicked |-> TRUE, verdict |-> verdict_text,
             verdict_struct |-> IF verdict_text # "None"
                                THEN parse_verdict_text(verdict_text)
                                ELSE NoOutput.verdict_struct]

\* what the remote server and the network do during one turn: whether
\* MCPConnector.__aenter__ raises, the names tools/list returns, whether a
\* call of the targets' sequences outside the try blocks raises, and whether
\* the click and key-press calls do
TurnEnvs ==
    {[connect |-> "raise", listed |-> {}, visit |-> "none", click |-> "none", page |-> NoPage],
     [connect |-> "ok", listed |-> {}, visit |-> "none", click |-> "none", page |-> NoPage]}
    \cup [connect : {"ok"}, listed : ToolCatalogs \ {{}}, visit : {"raise"},
          click : {"none"}, page : {NoPage}]
    \cup [connect : {"ok"}, listed : ToolCatalogs \ {{}}, visit : {"ok"},
          click : {"ok"},
          page : { [i \in 1..(VerdictRetries + 1) |->
                       IF i = k THEN VerdictPass ELSE "None"] :
                   k \in 1..(VerdictRetries + 1) }]
    \cup [connect : {"ok"}, listed : ToolCatalogs \ {{}}, visit : {"ok"},
          click : {"raise"}, page : {NoPage}]

\* the outcome of the try block of invoke_server_node for one server
TurnOutcome(env) ==
    IF env.connect = "raise" THEN "fail"
    ELSE LET tools == list_tools(env.listed)
             tool_names == ExecToolNames(tools)
         IN IF tool_names = {} THEN "no_tools"
            ELSE IF BuildActionsRaises(tool_names) /\ Len(targets) > 0 THEN "fail"
            ELSE IF env.visit = "raise" /\ Len(targets) > 0 THEN "fail"
            ELSE "success"

\* srv["tools"] = tools, reached only when the connector was entered
AttachTools(ss, i, env) ==
    IF env.connect = "raise" THEN ss
    ELSE [ss EXCEPT ![i].tools = list_tools(env.listed)]

\* the updates invoke_server_node returns, branch by branch
\* mutant of NoMoreError: the end of the shortlist records nothing
NoMoreError_unset == last_error

\* mutant of NoToolsBackoff: a server without tools is penalised like a failure
NoToolsBackoff_penalised(backoff, id, t, wait) == BackoffSet(backoff, id, t + wait)

NoMoreError == Err("no_more", 0)
SkipError(id) == Err("backoff", id)
NoToolsError(id) == Err("no_tools", id)
FailError(id) == Err("failed", id)
NoToolsBackoff(backoff, id, t, wait) == backoff
SuccessBackoff(backoff, id) == BackoffPop(backoff, id)
\* mutant of FailBackoff: every entry of the map is set
FailBackoff_all(backoff, id, t, wait) ==
    [i \in DOMAIN backoff \cup {id} |-> t + wait]

FailBackoff(backoff, id, t, wait) == BackoffSet(backoff, id, t + wait)
SuccessResult(id, env) ==
    [populated |-> TRUE, server |-> id,
     outputs |-> [t \in 1..Len(targets) |-> try_visit(list_tools(env.listed), env.page, env.click)]]

\* the run counter of the model stops counting at InvokeCap
InvokeCap == Max(MinBudget, 2 * MaxServers) + 2
CountInvoke(n) == IF n < InvokeCap THEN n + 1 ELSE n

invoke_server_node(env, k) ==
    /\ node = "invoke"
    /\ invokes' = CountInvoke(invokes)
    /\ UNCHANGED <<targets, shortlist, idx, attempts, max_attempts, sel, now>>
    /\ UNCHANGED notLoop
    /\ IF idx >= Len(shortlist)
       THEN /\ last_error' = NoMoreError
            /\ turn' = [NoTurn EXCEPT !.kind = "no_more", !.fails = turn.fails]
            /\ node' = Route(result)
            /\ UNCHANGED <<servers, result, backoff_until>>
       ELSE LET cand == shortlist[idx + 1]
                si == find_server(servers, cand.server_id)
            IN IF si = 0
               THEN \* KeyError leaves the graph run
                    /\ node' = "aborted"
                    /\ turn' = [NoTurn EXCEPT !.kind = "key_error", !.fails = turn.fails]
                    /\ UNCHANGED <<servers, last_error, result, backoff_until>>
               ELSE LET id == servers[si].id
                        backoff == backoff_until
                    IN IF BackoffInEffect(backoff, id, now)
                       THEN /\ last_error' = SkipError(id)
                            /\ backoff_until' = backoff
                            /\ turn' = [NoTurn EXCEPT !.kind = "skip", !.server = id,
                                                          !.fails = turn.fails]
                            /\ node' = Route(result)
                            /\ UNCHANGED <<servers, result>>
                       ELSE LET out == TurnOutcome(env)
                                wait == BackoffWait(k)
                                rec == [kind |-> out, server |-> id, opened |-> TRUE,
                                        listed |-> env.listed, visit |-> env.visit,
                                        click |-> env.click,
                                        page |-> env.page,
                                        wait |-> 0, fails |-> turn.fails]
                            IN /\ servers' = AttachTools(servers, si, env)
                               /\ CASE out = "no_tools" ->
                                         /\ last_error' = NoToolsError(id)
                                         /\ backoff_until' = NoToolsBackoff(backoff, id, now, wait)
                                         /\ result' = result
                                         /\ turn' = rec
                                         /\ node' = Route(result)
                                    [] out = "success" ->
                                         /\ result' = SuccessResult(id, env)
                                         /\ backoff_until' = SuccessBackoff(backoff, id)
                                         /\ last_error' = last_error
                                         /\ turn' = rec
                                         /\ node' = Route(SuccessResult(id, env))
                                    [] OTHER ->
                                         /\ last_error' = FailError(id)
                                         /\ backoff_until' = FailBackoff(backoff_until, id, now, wait)
                                         /\ result' = result
                                         /\ turn' = [rec EXCEPT !.wait = wait,
                                                             !.fails = CountInvoke(turn.fails)]
                                         /\ node' = Route(result)

\* mutants of pick_next_node: a node that never hands over to invoke, and a
\* cursor that does not advance
pick_next_node_stuck ==
    /\ node = "pick_next"
    /\ node' = "pick_next"
    /\ UNCHANGED <<servers, targets, shortlist, idx, attempts, max_attempts, last_error,
                   result, backoff_until, now, sel, turn, invokes>>
    /\ UNCHANGED notLoop

pick_next_node_noidx ==
    /\ node = "pick_next"
    /\ attempts' = attempts + 1
    /\ node' = "invoke"
    /\ UNCHANGED <<servers, targets, shortlist, idx, max_attempts, last_error, result,
                   backoff_until, now, sel, turn, invokes>>
    /\ UNCHANGED notLoop

\* a cursor that jumps over a candidate
pick_next_node_skip ==
    /\ node = "pick_next"
    /\ idx' = idx + 2
    /\ attempts' = attempts + 1
    /\ node' = "invoke"
    /\ UNCHANGED <<servers, targets, shortlist, max_attempts, last_error, result,
                   backoff_until, now, sel, turn, invokes>>
    /\ UNCHANGED notLoop

pick_next_node ==
    /\ node = "pick_next"
    /\ idx' = idx + 1
    /\ attempts' = attempts + 1
    /\ node' = "invoke"
    /\ UNCHANGED <<servers, targets, shortlist, max_attempts, last_error, result,
                   backoff_until, now, sel, turn, invokes>>
    /\ UNCHANGED notLoop

\* random.random() is drawn only by the failure handler
RandomDraws(env) == IF TurnOutcome(env) = "fail" THEN 0..(RandUnits - 1) ELSE {0}

Invoke ==
    \E env \in TurnEnvs : \E k \in RandomDraws(env) : invoke_server_node(env, k)

\* time passes (a turn's own duration included) before a node that reads the clock
Tick ==
    /\ node \in {"select", "invoke"}
    /\ now < MaxTime
    /\ now' = now + 1
    /\ UNCHANGED <<servers, targets, shortlist, idx, attempts, max_attempts,
                   last_error, result, backoff_until, node, sel, turn, invokes>>
    /\ UNCHANGED notLoop

GraphStep == select_candidates_node \/ Invoke \/ pick_next_node

(***************************************************************************)
(* The initial state: main.py's init_state over the catalogs, backoff maps *)
(* and cursor values a caller may pass to app.ainvoke.                     *)
(***************************************************************************)
\* a backoff entry of the caller's state was left by a failure at clock 0;
\* its "max_attempts" is main.py's, or a smaller one
LoopInit ==
    /\ \E n \in 0..MaxServers :
         \E h \in [1..n -> BOOLEAN], br \in [1..n -> BOOLEAN], bo \in [1..n -> {0, BackoffBase}] :
           /\ servers = [i \in 1..n |-> [id |-> i, healthy |-> h[i], browser |-> br[i],
                                         tools |-> {}]]
           /\ backoff_until = [i \in {j \in 1..n : bo[j] > 0} |-> bo[i]]
           /\ shortlist = [i \in 1..n |-> [server_id |-> i, score |-> 10, reason |-> "manual"]]
    /\ targets = <<"https://captcha-mcp-vercel-client.vercel.app">>
    /\ idx \in {0, 1}
    /\ attempts \in {0, 1}
    /\ max_attempts \in {MainMaxAttempts, MainMaxAttempts - 2}
    /\ last_error = NoError
    /\ result = EmptyResult
    /\ node = "select"
    /\ now = 0
    /\ sel = NoSel
    /\ turn = NoTurn
    /\ invokes = 0

\* no graph run: the state the connector's specification keeps the loop in
LoopIdle ==
    /\ servers = << >>
    /\ backoff_until = << >>
    /\ shortlist = << >>
    /\ targets = << >>
    /\ idx = 0
    /\ attempts = 0
    /\ max_attempts = MainMaxAttempts
    /\ last_error = NoError
    /\ result = EmptyResult
    /\ node = "done"
    /\ now = 0
    /\ sel = NoSel
    /\ turn = NoTurn
    /\ invokes = 0

(***************************************************************************)
(* mcp_client.py: MCPConnector                                             *)
(***************************************************************************)
CallIds == 1..MaxCalls
\* ids an envelope may carry: 0 is never issued
WireIds == 0..MaxCalls
SessionIds == {"sidA", "sidB"}

NoFuture == [state |-> "none", obj |-> "none", n |-> 0]
NewFuture == [state |-> "pending", obj |-> "none", n |-> 0]
\* mutant of Done: a future that holds a result does not count as done
Done_noresult(f) == f.state \in {"exception", "cancelled"}

Done(f) == f.state \in {"result", "exception", "cancelled"}

\* fut.set_result(obj) / fut.set_exception(MCPError("Connection closed")) / fut.cancel()
SetResult(f, obj) == [state |-> "result", obj |-> obj, n |-> f.n + 1]
SetException(f) == [state |-> "exception", obj |-> "closed", n |-> f.n + 1]
Cancel(f) == [state |-> "cancelled", obj |-> "none", n |-> f.n + 1]

\* mutant of DeliverTo: set_result without the fut.done() guard
DeliverTo_unguarded(f, obj) == SetResult(f, obj)

\* if not fut.done(): fut.set_result(obj)
DeliverTo(f, obj) == IF ~Done(f) THEN SetResult(f, obj) ELSE f

\* the chunks the push channel may carry.  sid: the session id of the first
\* data line holding "sessionId=<non-empty>", "None" without one.  kind: what
\* json.loads makes of the last data line: "object" (a dict), "nonobject" (a
\* list, number, ...), "text" (not JSON), "nodata" (no data line).  An object
\* has an id (idint: it is an int) and a member: result, error or neither.
\* The capture of the session id and the dispatch are two passes over the
\* chunk that do not read each other's state, so a chunk that has a session id
\* and an envelope with an int id acts as a chunk with the one followed by a
\* chunk with the other; the envelopes with an int id are drawn without one.
Messages ==
    [sid : {"None"}, kind : {"object"}, idint : {TRUE},
     id : WireIds, member : {"result", "error", "neither"}]
    \cup [sid : {"None"} \cup SessionIds, kind : {"object"}, idint : {FALSE},
          id : {0}, member : {"neither"}]
    \cup [sid : {"None"} \cup SessionIds, kind : {"text", "nonobject"}, idint : {FALSE},
          id : {0}, member : {"neither"}]
    \cup [sid : {"None"}, kind : {"nodata"}, idint : {FALSE}, id : {0},
          member : {"neither"}]

Event(op, id) == [op |-> op, id |-> id, sid |-> "None"]
\* the last step was not a delivery
NoDelivery == Event("other", 0)

\* mutant of Capture: a later greeting replaces the session id
Capture_overwrite(current, msg) ==
    IF msg.sid # "None" THEN msg.sid ELSE current

\* the session id after the capture loop of _process_sse_message
Capture(current, msg) ==
    IF msg.sid # "None" /\ current = "None" THEN msg.sid ELSE current

\* _process_sse_message, run by _sse_reader for each blank-line-ended chunk
_process_sse_message(msg) ==
    /\ _sse_task = "running"
    /\ _session_id' = Capture(_session_id, msg)
    /\ ev' = [Event("deliver", IF msg.kind = "object" /\ msg.idint THEN msg.id ELSE -1)
                 EXCEPT !.sid = msg.sid]
    /\ UNCHANGED <<_next_id, call, _session, closing>>
    /\ UNCHANGED notConn
    /\ CASE msg.kind \in {"nodata", "text"} ->
              UNCHANGED <<_pending, fut, _sse_task>>
         [] msg.kind = "nonobject" ->
              \* obj.get raises AttributeError out of the reader task
              /\ _sse_task' = "crashed"
              /\ UNCHANGED <<_pending, fut>>
         [] OTHER ->
              /\ _sse_task' = _sse_task
              /\ IF msg.idint /\ msg.id \in _pending
                 THEN /\ _pending' = _pending \ {msg.id}
                      /\ fut' = [fut EXCEPT ![msg.id] = DeliverTo(@, msg.member)]
                 ELSE UNCHANGED <<_pending, fut>>

Deliver == \E msg \in Messages : _process_sse_message(msg)

\* the push channel ends: the async for of _sse_reader runs out
ReaderEnds ==
    /\ _sse_task = "running"
    /\ _sse_task' = "ended"
    /\ ev' = NoDelivery
    /\ UNCHANGED <<_next_id, _pending, fut, call, _session, _session_id, closing>>
    /\ UNCHANGED notConn

\* mutant of NextId: the counter does not advance
NextId_same(n) == n

\* itertools.count(1): the value after n
NextId(n) == n + 1

\* _rpc up to the POST: the id, the waiter, the request on its way
_rpc_start ==
    /\ _next_id <= MaxCalls
    /\ IF _session = "None"
       THEN \* MCPError("Session not initialized"), before an id is drawn
            /\ ev' = NoDelivery
            /\ UNCHANGED <<_next_id, _pending, fut, call>>
       ELSE /\ _next_id' = NextId(_next_id)
            /\ fut' = [fut EXCEPT ![_next_id] = NewFuture]
            /\ _pending' = _pending \cup {_next_id}
            /\ call' = [call EXCEPT ![_next_id] = "posting"]
            /\ ev' = NoDelivery
    /\ UNCHANGED <<_session, _sse_task, _session_id, closing>>
    /\ UNCHANGED notRpc

\* a call of any caller, its POST left to PostReturns
RpcStart == _rpc_start /\ UNCHANGED driveVars

\* what _post_rpc comes back with: an envelope with result (carrying the id of
\* the call, or another id), one with error, a parsed body with neither, or
\* MCPError once every variant failed

\* mutant of InlinePop: the inline branch leaves the entry
InlinePop_keep(p, id) == p

\* self._pending.pop(rpc_id, None) of the inline branch
InlinePop(p, id) == p \ {id}

\* _rpc from the return of _post_rpc to the wait for the push channel
_rpc_after_post(id, outcome) ==
    /\ call[id] = "posting"
    /\ ev' = NoDelivery
    /\ UNCHANGED <<_next_id, fut, _session, _sse_task, _session_id, closing>>
    /\ UNCHANGED notRpc
    /\ CASE outcome = "raise" ->
              /\ call' = [call EXCEPT ![id] = "raised_post"]
              /\ _pending' = _pending
         [] outcome = "inline_error" ->
              /\ call' = [call EXCEPT ![id] = "raised_remote"]
              /\ _pending' = InlinePop(_pending, id)
         [] outcome = "inline_result" ->
              /\ call' = [call EXCEPT ![id] = "returned_inline"]
              /\ _pending' = InlinePop(_pending, id)
         [] outcome = "inline_result_other_id" ->
              \* "result" in obj is all _rpc looks at
              /\ call' = [call EXCEPT ![id] = "returned_inline_other_id"]
              /\ _pending' = InlinePop(_pending, id)
         [] OTHER ->
              /\ call' = [call EXCEPT ![id] = "waiting"]
              /\ _pending' = _pending

\* the POST of a call, reduced to what _post_rpc comes back with
PostReturns(id, outcome) == _rpc_after_post(id, outcome) /\ UNCHANGED driveVars

Post ==
    \E id \in CallIds,
       outcome \in {"inline_result", "inline_result_other_id", "inline_error", "neither",
                    "raise"} :
        PostReturns(id, outcome)

\* asyncio.wait_for(fut, timeout) returns or raises what the future holds
WaitReturns(id) ==
    /\ call[id] = "waiting"
    /\ Done(fut[id])
    /\ call' = [call EXCEPT ![id] =
                  IF fut[id].state = "exception" THEN "raised_closed"
                  ELSE IF fut[id].obj = "error" THEN "raised_remote"
                  ELSE IF fut[id].obj # "result" THEN "raised_missing"
                  ELSE "returned_sse"]
    /\ ev' = NoDelivery
    /\ UNCHANGED <<_next_id, _pending, fut, _session, _sse_task, _session_id, closing>>
    /\ UNCHANGED notConn

\* the timeout of wait_for elapses: the future is cancelled, and the caller is
\* resumed with TimeoutError by a later callback of the event loop
TimeoutFires(id) ==
    /\ call[id] = "waiting"
    /\ ~Done(fut[id])
    /\ fut' = [fut EXCEPT ![id] = Cancel(@)]
    /\ call' = [call EXCEPT ![id] = "timing_out"]
    /\ ev' = NoDelivery
    /\ UNCHANGED <<_next_id, _pending, _session, _sse_task, _session_id, closing>>
    /\ UNCHANGED notConn

\* mutant of TimeoutPop: the timeout handler leaves the entry
TimeoutPop_keep(p, id) == p

\* self._pending.pop(rpc_id, None) of the timeout handler
TimeoutPop(p, id) == p \ {id}

\* except asyncio.TimeoutError: self._pending.pop(rpc_id, None); raise MCPError
TimeoutHandled(id) ==
    /\ call[id] = "timing_out"
    /\ _pending' = TimeoutPop(_pending, id)
    /\ call' = [call EXCEPT ![id] = "raised_timeout"]
    /\ ev' = NoDelivery
    /\ UNCHANGED <<_next_id, fut, _session, _sse_task, _session_id, closing>>
    /\ UNCHANGED notConn

Wait == \E id \in CallIds : WaitReturns(id) \/ TimeoutFires(id) \/ TimeoutHandled(id)

\* _shutdown up to its first awaits: the reader task is cancelled
ShutdownBegin ==
    /\ closing = "no"
    /\ closing' = "reader_cancelled"
    /\ _sse_task' = IF _sse_task = "running" THEN "cancelled" ELSE _sse_task
    /\ ev' = NoDelivery
    /\ UNCHANGED <<_next_id, _pending, fut, call, _session, _session_id>>
    /\ UNCHANGED notConn

\* mutant of FailWaiter: teardown leaves the waiter as it is
FailWaiter_skip(f) == f

\* if not fut.done(): fut.set_exception(MCPError("Connection closed"))
FailWaiter(f) == IF ~Done(f) THEN SetException(f) ELSE f

\* mutant of Cleared: teardown leaves the entries in the map
Cleared_kept(p) == p

\* self._pending.clear()
Cleared(p) == {}

\* _shutdown after them: fail the waiters not done, clear the map, and start
\* closing the session
ShutdownFailWaiters ==
    /\ closing = "reader_cancelled"
    /\ closing' = "session_closing"
    /\ fut' = [i \in CallIds |->
                 IF i \in _pending THEN FailWaiter(fut[i]) ELSE fut[i]]
    /\ _pending' = Cleared(_pending)
    /\ ev' = NoDelivery
    /\ UNCHANGED <<_next_id, call, _session, _sse_task, _session_id>>
    /\ UNCHANGED notConn

\* _shutdown once the session is closed: self._session = None
ShutdownFinish ==
    /\ closing = "session_closing"
    /\ closing' = "done"
    /\ _session' = "None"
    /\ ev' = NoDelivery
    /\ UNCHANGED <<_next_id, _pending, fut, call, _sse_task, _session_id>>
    /\ UNCHANGED notConn

\* the method of each call, in the order __aenter__ and the loop issue them:
\* initialize(), list_tools(), then call_tool()
Method(id) ==
    IF id = 1 THEN "initialize" ELSE IF id = 2 THEN "tools/list" ELSE "tools/call"

\* the methods of the requests the connector has POSTed, in order
ConnSent == [i \in 1..(_next_id - 1) |-> Method(i)]

\* the connector after __aenter__ opened the session and started the reader
ConnInit ==
    /\ _next_id = 1
    /\ _pending = {}
    /\ fut = [i \in CallIds |-> NoFuture]
    /\ call = [i \in CallIds |-> "idle"]
    /\ _session = "open"
    /\ _sse_task = "running"
    /\ _session_id = "None"
    /\ closing = "no"
    /\ ev = NoDelivery

ConnNext ==
    Deliver \/ ReaderEnds \/ RpcStart \/ Post \/ Wait \/ ShutdownBegin
    \/ ShutdownFailWaiters \/ ShutdownFinish

(***************************************************************************)
(* mcp_client.py: the POSTs of one call, and the connector as              *)
(* invoke_server_node drives it                                            *)
(***************************************************************************)
\* the base candidates of _post_variants, in the order it appends them
BaseVariants(session_id) ==
    <<"mcp", "messages">>
    \o (IF session_id # "None" THEN <<"mcp?sid">> ELSE << >>)
    \o (IF session_id # "None" THEN <<"messages?sid">> ELSE << >>)

\* _post_variants: the labels to try, the last working one first
_post_variants(session_id, last_working_label) ==
    LET base == BaseVariants(session_id)
    IN IF last_working_label # "None"
       THEN SelectSeq(base, LAMBDA x : x = last_working_label)
            \o SelectSeq(base, LAMBDA x : x # last_working_label)
       ELSE base

\* what a POST may come back with.  body: a JSON object with result (for the id
\* of the call or another id), with error or with neither; a JSON array; JSON
\* null; event-stream text whose last data line is a JSON object with result,
\* or is no JSON; a page of HTML
NoResponse == [status |-> 0, obj |-> "None"]
\* session.post raised: there is no response
PostRaised == [status |-> -1, ctype |-> "none", body |-> "none"]
Responses ==
    [status : {200},
     ctype : {"application/json", "text/event-stream", "text/plain"},
     body : {"object_result", "object_result_other_id", "object_error", "object_neither",
             "array", "null", "sse_result", "sse_text", "html"}]
    \cup [status : {404, 500}, ctype : {"application/json"}, body : {"object_error"}]
    \cup [status : {404, 500}, ctype : {"text/plain"}, body : {"html"}]
    \cup {PostRaised}

\* _parse_sse_text_to_json(text) inside try/except: json.loads of the last
\* data line, "None" when there is none or it is no JSON
_parse_sse_text_to_json(body) ==
    IF body = "sse_result" THEN "result" ELSE "None"

\* the object _post_rpc makes of a 200 response, "None" for unrecognized
Decode(r) ==
    LET \* text.lstrip().startswith("{") / .startswith(("event:", "data:"))
        StartsBrace(body) ==
            body \in {"object_result", "object_result_other_id", "object_error",
                      "object_neither"}
        StartsSse(body) == body \in {"sse_result", "sse_text"}
        \* json.loads(text) inside try/except: the value, "None" for null and
        \* for a text that is no JSON
        JsonLoads(body) ==
            CASE body = "object_result" -> "result"
              [] body = "object_result_other_id" -> "result_other_id"
              [] body = "object_error" -> "error"
              [] body = "object_neither" -> "neither"
              [] body = "array" -> "array"
              [] OTHER -> "None"
        inline_obj == IF r.ctype = "application/json" \/ StartsBrace(r.body)
                      THEN JsonLoads(r.body) ELSE "None"
        inline_sse_obj == IF r.ctype = "text/event-stream" \/ StartsSse(r.body)
                          THEN _parse_sse_text_to_json(r.body) ELSE "None"
    IN IF inline_obj # "None" THEN inline_obj ELSE inline_sse_obj

\* what the for loop of _post_rpc reads of a response
Seen(r) == [status |-> r.status, obj |-> Decode(r)]

\* mutant of PostAccepts: the status is not looked at
PostAccepts_anystatus(r) == Decode(r) # "None"

\* the variant ends the for loop of _post_rpc with a return
PostAccepts(r) == r.status = 200 /\ Decode(r) # "None"

\* mutant of Outcome: an error member is not looked at
Outcome_noerror(obj) ==
    CASE obj = "result" -> "inline_result"
      [] obj = "result_other_id" -> "inline_result_other_id"
      [] OTHER -> "neither"

\* what _rpc makes of the object: "result" in obj, "error" in obj, or neither
\* (a dict without them, or no dict)
Outcome(obj) ==
    CASE obj = "result" -> "inline_result"
      [] obj = "result_other_id" -> "inline_result_other_id"
      [] obj = "error" -> "inline_error"
      [] OTHER -> "neither"

\* one turn of the for loop of _post_rpc for the call id, and what _rpc does
\* when that turn ends the loop
_post_rpc(id, r) ==
    /\ call[id] = "posting"
    /\ pos < Len(variants)
    /\ pos' = pos + 1
    /\ resp' = Seen(r)
    /\ UNCHANGED <<drv, variants>>
    /\ IF r = PostRaised
       THEN \* the exception of session.post leaves _post_rpc and _rpc
            /\ call' = [call EXCEPT ![id] = "raised_transport"]
            /\ ev' = NoDelivery
            /\ UNCHANGED <<_next_id, _pending, fut, _session, _sse_task, _session_id,
                           closing, _last_working_label>>
            /\ UNCHANGED notRpc
       ELSE IF PostAccepts(r)
       THEN LET outcome == Outcome(Decode(r))
            IN /\ _rpc_after_post(id, outcome)
               /\ _last_working_label' =
                     IF outcome \in {"inline_result", "inline_result_other_id"}
                     THEN variants[pos + 1] ELSE _last_working_label
       ELSE IF pos + 1 = Len(variants)
       THEN \* raise MCPError(last_err)
            /\ _rpc_after_post(id, "raise")
            /\ UNCHANGED _last_working_label
       ELSE \* continue
            /\ ev' = NoDelivery
            /\ UNCHANGED <<_next_id, _pending, fut, call, _session, _sse_task,
                           _session_id, closing, _last_working_label>>
            /\ UNCHANGED notRpc

DrvPost == \E id \in CallIds, r \in Responses : _post_rpc(id, r)

CallReturned(i) ==
    call[i] \in {"returned_inline", "returned_inline_other_id", "returned_sse"}
CallRaised(i) ==
    call[i] \in {"raised_post", "raised_transport", "raised_remote", "raised_timeout",
                 "raised_missing", "raised_closed"}

\* the calls __aenter__ makes
EnterCalls == { i \in CallIds : Method(i) \in {"initialize", "tools/list"} }

\* __aenter__ up to the reader task: the GET of the push channel answers 200,
\* or it raises or answers another status
DrvConnect ==
    /\ drv = "new"
    /\ \E ok \in BOOLEAN :
          /\ drv' = IF ok THEN "entered" ELSE "failed"
          /\ _sse_task' = IF ok THEN "running" ELSE _sse_task
    /\ ev' = NoDelivery
    /\ UNCHANGED <<_next_id, _pending, fut, call, _session, _session_id, closing>>
    /\ UNCHANGED <<_last_working_label, variants, pos, resp>>
    /\ UNCHANGED notRpc

\* await self.initialize(), then await self.list_tools(): each call starts
\* when the one before it has returned
DrvCall ==
    /\ drv = "entered"
    /\ closing = "no"
    /\ _next_id \in EnterCalls
    /\ \A i \in 1..(_next_id - 1) : CallReturned(i)
    /\ _rpc_start
    /\ variants' = _post_variants(_session_id, _last_working_label)
    /\ pos' = 0
    /\ resp' = NoResponse
    /\ UNCHANGED <<drv, _last_working_label>>

\* the connector is left: by the except of __aenter__ when the connect or a
\* call raised, by __aexit__ when the body of the async with is over (it is
\* once tools/list returned: tool_names is empty and the node returns)
DrvExit ==
    /\ \/ drv = "failed"
       \/ drv = "entered" /\ \E i \in EnterCalls : CallRaised(i)
       \/ drv = "entered" /\ \A i \in EnterCalls : CallReturned(i)
    /\ ShutdownBegin

\* no connector under a driver: the variables of the driver at rest
DriveIdle ==
    /\ drv = "entered"
    /\ _last_working_label = "None"
    /\ variants = << >>
    /\ pos = 0
    /\ resp = NoResponse

\* MCPConnector(...) constructed and the ClientSession of __aenter__ created
DriveInit ==
    /\ _next_id = 1
    /\ _pending = {}
    /\ fut = [i \in CallIds |-> NoFuture]
    /\ call = [i \in CallIds |-> "idle"]
    /\ _session = "open"
    /\ _sse_task = "None"
    /\ _session_id = "None"
    /\ closing = "no"
    /\ ev = NoDelivery
    /\ drv = "new"
    /\ _last_working_label = "None"
    /\ variants = << >>
    /\ pos = 0
    /\ resp = NoResponse

DriveNext ==
    DrvConnect \/ DrvCall \/ DrvPost \/ Deliver \/ ReaderEnds \/ Wait \/ DrvExit
    \/ ShutdownFailWaiters \/ ShutdownFinish

(***************************************************************************)
(* executor.py: the snapshot helpers                                       *)
(***************************************************************************)
\* a node of the snapshot tree: attributes.id, the four text keys, role, ref
\* and children; "None" for a key the dict does not have
Node(id, name, value, description, text, role, ref, children) ==
    [id |-> id, name |-> name, value |-> value, description |-> description,
     text |-> text, role |-> role, ref |-> ref, children |-> children]

\* a value that is no str
NotStr == "<int 7>"

RECURSIVE _traverse(_)
\* mutant of _traverse: the children are not visited
_traverse_shallow(snapshot) == <<snapshot>>

\* _traverse: the node, then the nodes of each child in turn
_traverse(snapshot) ==
    LET RECURSIVE all(_)
        all(children) ==
            IF children = << >> THEN << >>
            ELSE _traverse(Head(children)) \o all(Tail(children))
    IN <<snapshot>> \o all(snapshot.children)

\* extract_text_by_id: for the first node with the id, the first of name,
\* value, description, text that is a str and not blank, stripped, "" when
\* there is none; "None" without such a node
extract_text_by_id(snapshot_root, target_id) ==
    LET hits == SelectSeq(_traverse(snapshot_root), LAMBDA n : n.id = target_id)
        RECURSIVE first_text(_, _)
        first_text(n, keys) ==
            IF keys = << >> THEN ""
            ELSE LET v == n[Head(keys)]
                 IN IF v \in Texts /\ strip(v) # "" THEN strip(v)
                    ELSE first_text(n, Tail(keys))
    IN IF hits = << >> THEN "None"
       ELSE first_text(Head(hits), <<"name", "value", "description", "text">>)

\* mutant of find_ref_by_name_and_role: the role is not compared
find_ref_by_name_and_role_anyrole(snapshot_root, name, role) ==
    LET hits == SelectSeq(_traverse(snapshot_root),
                          LAMBDA n : n.name = name /\ n.ref # "None")
    IN IF hits = << >> THEN "None" ELSE Head(hits).ref

\* find_ref_by_name_and_role: the ref of the first node with the name, a ref,
\* and the role when one is asked for
find_ref_by_name_and_role(snapshot_root, name, role) ==
    LET hits == SelectSeq(_traverse(snapshot_root),
                          LAMBDA n : /\ n.name = name /\ n.ref # "None"
                                     /\ (role = "None" \/ n.role = role))
    IN IF hits = << >> THEN "None" ELSE Head(hits).ref

\* a line of snapshot text, token by token: "-", runs of blanks, the role, a
\* double quote, the label, "[ref=", the ref, "]", ":"
Blanks == {" ", "  "}
\* \s*: the tokens after the blanks at the start
RECURSIVE SkipBlanks(_)
SkipBlanks(ts) ==
    IF ts # << >> /\ Head(ts) \in Blanks THEN SkipBlanks(Tail(ts)) ELSE ts

\* _YAML_BUTTON_LINE.match(line): the groups label and ref, NoMatch without
\* a match at the start of the line
NoMatch == [label |-> "None", ref |-> "None"]
_YAML_BUTTON_LINE(line) ==
    LET \* [^"]+ and [a-zA-Z0-9_:-]+
        RefChars ==
            {Letters.upper[i] : i \in 1..26} \cup {Letters.lower[i] : i \in 1..26}
            \cup {"0", "1", "2", "3", "4", "5", "6", "7", "8", "9"} \cup {"_", ":", "-"}
        IsLabel(tok) ==
            tok \in Texts \ {""} /\ \A i \in 1..Len(Chars(tok)) : Chars(tok)[i] # "\""
        IsRef(tok) ==
            Chars(tok) # << >> /\ \A i \in 1..Len(Chars(tok)) : Chars(tok)[i] \in RefChars
        r1 == SkipBlanks(Tail(line))
        r2 == Tail(r1)
        r3 == SkipBlanks(r2)
        r4 == SubSeq(r3, 4, Len(r3))
        r5 == SkipBlanks(r4)
    IN IF /\ line # << >> /\ Head(line) = "-"
          /\ r1 # << >> /\ Head(r1) = "button"
          /\ r2 # << >> /\ Head(r2) \in Blanks
          /\ Len(r3) >= 3 /\ r3[1] = "\"" /\ IsLabel(r3[2]) /\ r3[3] = "\""
          /\ r4 # << >> /\ Head(r4) \in Blanks
          /\ Len(r5) >= 3 /\ r5[1] = "[ref=" /\ IsRef(r5[2]) /\ r5[3] = "]"
       THEN [label |-> r3[2], ref |-> r5[2]]
       ELSE NoMatch

\* the lines that open and close the yaml block, a fence being three backticks
FenceYaml == <<"<fence>yaml">>
Fence == <<"<fence>">>

\* _extract_button_ref_from_yaml_text: the ref of the first button line with
\* the label among the lines between the first yaml fence and the next fence
\* (the non-greedy search with re.S), each line stripped of blanks at its ends
_extract_button_ref_from_yaml_text(snapshot_text, label) ==
    LET n == Len(snapshot_text)
        opens == { i \in 1..n : snapshot_text[i] = FenceYaml }
        open == CHOOSE i \in opens : \A j \in opens : i <= j
        closes == { i \in (open + 1)..n : snapshot_text[i] \in {Fence, FenceYaml} }
        close == CHOOSE i \in closes : \A j \in closes : i <= j
        yaml_block == SubSeq(snapshot_text, open + 1, close - 1)
        strip_line(ts) ==
            LET solid == { i \in 1..Len(ts) : ts[i] \notin Blanks }
                first == CHOOSE i \in solid : \A j \in solid : i <= j
                last == CHOOSE i \in solid : \A j \in solid : j <= i
            IN IF solid = {} THEN << >> ELSE SubSeq(ts, first, last)
        found == SelectSeq([i \in 1..Len(yaml_block) |->
                               _YAML_BUTTON_LINE(strip_line(yaml_block[i]))],
                           LAMBDA mm : mm # NoMatch /\ mm.label = label)
    IN IF snapshot_text = << >> \/ opens = {} \/ closes = {} \/ found = << >>
       THEN "None"
       ELSE Head(found).ref

\* ---- the inputs the helpers are called with ----
\* trees for extract_text_by_id: nodes with the id "verdict" whose text keys
\* are missing, blank, no str, or hold a text; nodes with another id or none
Leaf(id, name, value, description, text) ==
    Node(id, name, value, description, text, "None", "None", << >>)
Leaves ==
    {Leaf("verdict", "None", "None", "None", "None"),
     Leaf("verdict", "", " ", "None", "None"),
     Leaf("verdict", NotStr, " ok ", "None", "pending"),
     Leaf("verdict", "None", "None", "None", "PASS: success"),
     Leaf("verdict", " ", "None", "failed", "ok"),
     Leaf("other", "Other", "None", "None", "None"),
     Leaf("None", "PASS: success", "None", "None", "None")}
Inner(id, children) ==
    Node(id, "None", "None", "None", "None", "None", "None", children)
Trees ==
    LET InnerIds == {"None", "verdict"}
        one == { Inner(id, cs) : id \in InnerIds,
                                 cs \in { <<a>> : a \in Leaves }
                                        \cup { <<a, b>> : a \in Leaves, b \in Leaves } }
        two == { Inner("None", <<Inner(id, <<a>>), b>>) :
                    id \in InnerIds, a \in Leaves, b \in Leaves }
    IN Leaves \cup one \cup two
NoTree == Inner("None", << >>)


\* screens for the button lookup: up to three elements in document order,
\* exactly one of them the button with the label; the second element may be a
\* child of the first
ButtonLabel == "Verify Now By Zhen"
Refs == <<"e2", "e4", "s1e5">>
Element(role, name) == [role |-> role, name |-> name]
TheButton == Element("button", ButtonLabel)
OtherElements ==
    {Element("button", "Other"), Element("heading", ButtonLabel),
     Element("link", ButtonLabel), Element("generic", "None")}
Screens ==
    [els : { <<TheButton>> }
           \cup { <<a, TheButton>> : a \in OtherElements }
           \cup { <<TheButton, a>> : a \in OtherElements }
           \cup { <<a, b, TheButton>> : a \in OtherElements, b \in OtherElements }
           \cup { <<a, TheButton, b>> : a \in OtherElements, b \in OtherElements }
           \cup { <<TheButton, a, b>> : a \in OtherElements, b \in OtherElements },
     nested : BOOLEAN]
NoScreen == [els |-> << >>, nested |-> FALSE]

\* the screen as the structured tree: a node per element with role, name, ref
ToJson(screen) ==
    LET ElementNode(i, children) ==
            Node("None", screen.els[i].name, "None", "None", "None", screen.els[i].role,
                 Refs[i], children)
        n == Len(screen.els)
        kids == IF screen.nested /\ n >= 2
                THEN <<ElementNode(1, <<ElementNode(2, << >>)>>)>>
                     \o [i \in 1..(n - 2) |-> ElementNode(i + 2, << >>)]
                ELSE [i \in 1..n |-> ElementNode(i, << >>)]
    IN Node("None", "None", "None", "None", "None", "document", "None", kids)

\* the screen as text: a fenced yaml block with a line per element,
\* - role "name" [ref=handle], a child indented under its parent
ToYaml(screen) ==
    LET ElementLine(i) ==
            (IF screen.nested /\ i = 2 THEN <<"  ">> ELSE << >>)
            \o <<"-", " ", screen.els[i].role>>
            \o (IF screen.els[i].name # "None"
                THEN <<" ", "\"", screen.els[i].name, "\"">> ELSE << >>)
            \o <<" ", "[ref=", Refs[i], "]">>
            \o (IF screen.nested /\ i = 1 /\ Len(screen.els) >= 2 THEN <<":">> ELSE << >>)
    IN <<<<"### Page Snapshot">>, FenceYaml>>
       \o [i \in 1..Len(screen.els) |-> ElementLine(i)]
       \o <<Fence>>

ParseInputs ==
    { [kind |-> "tree", tree |-> x, verdict |-> "None", screen |-> NoScreen] : x \in Trees }
    \cup { [kind |-> "verdict", tree |-> NoTree, verdict |-> v, screen |-> NoScreen] :
             v \in (Texts \ {"Verify Now By Zhen", "Other"}) \cup {"None"} }
    \cup { [kind |-> "screen", tree |-> NoTree, verdict |-> "None", screen |-> s] :
             s \in Screens }

NoReturn == [text |-> "None", verdict |-> [success |-> "None", raw |-> "None"],
             json |-> "None", yaml |-> "None"]

\* verdict_text = extract_text_by_id(root2, "verdict")
ExtractText ==
    /\ fn = "none" /\ arg.kind = "tree"
    /\ fn' = "extract_text_by_id"
    /\ ret' = [NoReturn EXCEPT !.text = extract_text_by_id(arg.tree, "verdict")]
    /\ UNCHANGED arg
    /\ UNCHANGED notParse

\* out["_verdict_struct"] = parse_verdict_text(verdict_text)
ParseVerdict ==
    /\ fn = "none" /\ arg.kind = "verdict"
    /\ fn' = "parse_verdict_text"
    /\ ret' = [NoReturn EXCEPT !.verdict = parse_verdict_text(arg.verdict)]
    /\ UNCHANGED arg
    /\ UNCHANGED notParse

\* the button lookup of try_visit, for the tree and for the text of a screen
LocateButton ==
    /\ fn = "none" /\ arg.kind = "screen"
    /\ fn' = "locate_button"
    /\ ret' = [NoReturn EXCEPT
                 !.json = find_ref_by_name_and_role(ToJson(arg.screen), ButtonLabel, "button"),
                 !.yaml = _extract_button_ref_from_yaml_text(ToYaml(arg.screen), ButtonLabel)]
    /\ UNCHANGED arg
    /\ UNCHANGED notParse

\* no helper under test
ParseIdle ==
    /\ fn = "none"
    /\ arg = [kind |-> "none", tree |-> NoTree, verdict |-> "None", screen |-> NoScreen]
    /\ ret = NoReturn

ParseInit ==
    /\ fn = "none"
    /\ arg \in ParseInputs
    /\ ret = NoReturn

ParseNext == ExtractText \/ ParseVerdict \/ LocateButton

(***************************************************************************)
(* smoke.py                                                                *)
(***************************************************************************)
PROTO_CANDIDATES == <<"2024-11-05", "2025-06-18">>
\* a version the server may answer with that the client did not offer
OtherVersion == "2025-03-26"

Request(method, p, s) == [method |-> method, proto |-> p, sid |-> s]

\* what the server answers to initialize: HTTP 400 naming the version, another
\* status, 200 with an error member, 200 with a body that is no JSON, or 200
\* with a result that carries protocolVersion ver ("None": no such member) and
\* an Mcp-Session-Id header hdr
InitResponses ==
    [kind : {"reject_version", "http_error", "rpc_error", "bad_body"},
     ver : {"None"}, hdr : {"None"}]
    \cup [kind : {"ok"}, ver : {"None", "same", OtherVersion}, hdr : {"None", "sess-1"}]

\* result.get("protocolVersion", proto)
Negotiated(r, offered) ==
    IF r.ver = "None" \/ r.ver = "same" THEN offered ELSE r.ver

\* mutant of NextCandidate: the same candidate is offered again
NextCandidate_same(c) == c

\* for proto in PROTO_CANDIDATES: the candidate after a rejected one
NextCandidate(c) == c + 1

SmokeFail(why) ==
    /\ spc' = "failed"
    /\ failure' = why

\* one round of the for loop of initialize, and the RuntimeError after it
initialize(r) ==
    /\ spc = "initialize"
    /\ UNCHANGED <<warned>>
    /\ UNCHANGED notSmoke
    /\ IF tried >= Len(PROTO_CANDIDATES)
       THEN /\ SmokeFail("negotiation")
            /\ UNCHANGED <<tried, proto, sid, sent>>
       ELSE LET offered == PROTO_CANDIDATES[tried + 1]
            IN /\ sent' = Append(sent, Request("initialize", offered, "None"))
               /\ CASE r.kind = "reject_version" ->
                         /\ tried' = NextCandidate(tried)
                         /\ UNCHANGED <<spc, proto, sid, failure>>
                    [] r.kind = "http_error" ->
                         /\ SmokeFail("initialize_http")
                         /\ UNCHANGED <<tried, proto, sid>>
                    [] r.kind = "bad_body" ->
                         /\ SmokeFail("initialize_body")
                         /\ UNCHANGED <<tried, proto, sid>>
                    [] r.kind = "rpc_error" ->
                         /\ SmokeFail("initialize_error")
                         /\ UNCHANGED <<tried, proto, sid>>
                    [] OTHER ->
                         /\ proto' = Negotiated(r, offered)
                         /\ sid' = r.hdr
                         /\ spc' = "notify"
                         /\ UNCHANGED <<tried, failure>>

Initialize == \E r \in InitResponses : initialize(r)

\* notify_initialized inside main's try: a status other than 200 and 202 is
\* printed as a warning, and main goes on
notify_initialized(status) ==
    /\ spc = "notify"
    /\ sent' = Append(sent, Request("notifications/initialized", proto, sid))
    /\ warned' = (status \notin {200, 202})
    /\ spc' = "list"
    /\ UNCHANGED <<tried, proto, sid, failure>>
    /\ UNCHANGED notSmoke

Notify == \E status \in {200, 202, 500} : notify_initialized(status)

\* what the server answers to a request of rpc: 404, another status that is
\* not 200, 200 with an error member, or 200 with a result; for tools/list the
\* result lists browser_tabs (tabs) or does not
RpcResponses ==
    [kind : {"not_found", "http_error", "rpc_error"}, tabs : {FALSE}]
    \cup [kind : {"ok"}, tabs : BOOLEAN]

\* rpc: what it raises, "none" when it returns data.get("result")
RpcRaises(r, s) ==
    IF r.kind = "not_found" /\ s # "None" THEN "session_expired"
    ELSE IF r.kind \in {"not_found", "http_error"} THEN "http"
    ELSE IF r.kind = "rpc_error" THEN "rpc_error"
    ELSE "none"

\* tools = await rpc(..., "tools/list", {}, msg_id=2) and the test for browser_tabs
tools_list(r) ==
    /\ spc = "list"
    /\ sent' = Append(sent, Request("tools/list", proto, sid))
    /\ IF RpcRaises(r, sid) # "none"
       THEN SmokeFail(RpcRaises(r, sid))
       ELSE /\ spc' = IF r.tabs THEN "call" ELSE "done"
            /\ failure' = failure
    /\ UNCHANGED <<tried, proto, sid, warned>>
    /\ UNCHANGED notSmoke

\* res = await rpc(..., "tools/call", {"name": "browser_tabs", ...}, msg_id=3)
tools_call(r) ==
    /\ spc = "call"
    /\ sent' = Append(sent, Request("tools/call", proto, sid))
    /\ IF RpcRaises(r, sid) # "none"
       THEN SmokeFail(RpcRaises(r, sid))
       ELSE /\ spc' = "done"
            /\ failure' = failure
    /\ UNCHANGED <<tried, proto, sid, warned>>
    /\ UNCHANGED notSmoke

ToolsList == \E r \in RpcResponses : tools_list(r)
ToolsCall == \E r \in RpcResponses : tools_call(r)

\* main before its first request
SmokeInit ==
    /\ spc = "initialize"
    /\ tried = 0
    /\ proto = "None"
    /\ sid = "None"
    /\ sent = << >>
    /\ failure = "none"
    /\ warned = FALSE

SmokeNext == Initialize \/ Notify \/ ToolsList \/ ToolsCall

(***************************************************************************)
(* executor.py: try_visit, call by call. conn.available_tools is the list  *)
(* of dicts the comment of try_visit names; every call_tool returns or     *)
(* raises, and a snapshot call that returns brings one of a few snapshots. *)
(***************************************************************************)
\* retries = 2 of the first snapshot
FirstRetries == 2

\* the catalogs of the visits: every tool; no click and no wait tool; no
\* key-press tool; no snapshot tool
VisitCatalogs ==
    { { [type |-> "dict", val |-> [name |-> n]] : n \in names } :
        names \in { {"browser_navigate", "browser_wait", "browser_snapshot",
                     "browser_click", "browser_press_key"},
                    {"browser_navigate", "browser_snapshot", "browser_press_key"},
                    {"browser_tab_new", "browser_wait_for", "browser_snapshot",
                     "browser_click"},
                    {"browser_navigate", "browser_click", "browser_press_key"} } }

\* build_actions: the tools of the initial sequence, in order
build_actions(tool_names) ==
    LET open_tool == _pick(tool_names, <<"browser_tab_new">>)
        nav_tool == _pick(tool_names, <<"browser_navigate">>)
        wait_tool == _pick(tool_names, <<"browser_wait", "browser_wait_for">>)
        snap_tool == _pick(tool_names, <<"browser_snapshot">>)
    IN (IF open_tool # "None" THEN <<open_tool>> ELSE <<nav_tool>>)
       \o (IF wait_tool # "None" THEN <<wait_tool>> ELSE << >>)
       \o (IF snap_tool # "None" THEN <<snap_tool>> ELSE << >>)

\* what _snapshot_root_from_tool_result makes of the result of a snapshot
\* call: root (a dict or None) and raw_text (a str or None). first: nothing
\* parsable, the screen with or without the button as a tree, the same as
\* text only. verdict: no tree, a tree without the verdict node, the node
\* without text, the node with a text
Snapshots ==
    LET WithButton == [els |-> <<Element("heading", ButtonLabel), TheButton>>,
                       nested |-> FALSE]
        Shot(dict, root, has_text, text) ==
            [dict |-> dict, root |-> root, has_text |-> has_text, text |-> text]
    IN [none |-> Shot(FALSE, NoTree, FALSE, << >>),
        first |-> { Shot(FALSE, NoTree, FALSE, << >>) }
                  \cup { Shot(TRUE, ToJson(s), TRUE, <<<<"{json}">>>>) :
                            s \in {WithButton, NoScreen} }
                  \cup { Shot(FALSE, NoTree, TRUE, ToYaml(s)) :
                            s \in {WithButton, NoScreen} },
        verdict |-> { Shot(FALSE, NoTree, TRUE, <<<<"text">>>>) }
                    \cup { Shot(TRUE, t, TRUE, <<<<"{json}">>>>) :
                             t \in { Leaf("other", "Other", "None", "None", "None"),
                                     Leaf("verdict", "None", "None", "None", "None"),
                                     Leaf("verdict", "None", "None", "None", VerdictPass),
                                     Inner("None",
                                           <<Leaf("verdict", " ", "None", "failed", "ok")>>) } }]

\* try_visit before its first statement has run
NoVisit ==
    [pc |-> "idle", wait_tool |-> "None", snap_tool |-> "None", click_tool |-> "None",
     key_tool |-> "None", todo |-> << >>, calls |-> << >>, retries |-> 0,
     v_retries |-> 0, snap |-> Snapshots.none, btn_ref |-> "None", clicked |-> FALSE,
     shots |-> << >>, verdict_text |-> "None", verdict |-> "None",
     verdict_struct |-> NoOutput.verdict_struct]

\* await conn.call_tool(tool, args): the call joins those issued, with the
\* suffix of its key in out and whether it returned
call_tool(v, tool, tag, n, ok) ==
    [v EXCEPT !.calls = Append(@, [tool |-> tool, tag |-> tag, n |-> n, ok |-> ok])]

\* return out, with _verdict and _verdict_struct when verdict_text is not None
Return(v) ==
    [v EXCEPT !.pc = "returned",
              !.verdict = v.verdict_text,
              !.verdict_struct = IF v.verdict_text # "None"
                                 THEN parse_verdict_text(v.verdict_text)
                                 ELSE NoOutput.verdict_struct]

\* mutant of ReadVerdict: the loop goes round once more
ReadVerdict_extra(v) ==
    IF v.v_retries >= 0
    THEN LET text == IF v.snap.dict THEN extract_text_by_id(v.snap.root, "verdict")
                     ELSE v.verdict_text
             read == [v EXCEPT !.verdict_text = text]
         IN IF text \notin {"None", ""} THEN Return(read)
            ELSE [read EXCEPT !.pc = IF v.wait_tool # "None" THEN "verdict_wait"
                                     ELSE "verdict_snap"]
    ELSE Return(v)

\* the head of while v_retries > 0 up to the next await: the snapshot is
\* examined, the loop is left with a verdict text or goes on to the next
\* capture; once v_retries is 0 the function returns
ReadVerdict(v) ==
    IF v.v_retries > 0
    THEN LET text == IF v.snap.dict THEN extract_text_by_id(v.snap.root, "verdict")
                     ELSE v.verdict_text
             read == [v EXCEPT !.verdict_text = text]
         IN IF text \notin {"None", ""} THEN Return(read)
            ELSE [read EXCEPT !.pc = IF v.wait_tool # "None" THEN "verdict_wait"
                                     ELSE "verdict_snap"]
    ELSE Return(v)

\* clicked is True: the wait, the verdict snapshot, or the return without one
AfterTrigger(v) ==
    IF v.wait_tool # "None" THEN [v EXCEPT !.pc = "wait"]
    ELSE IF v.snap_tool # "None" THEN [v EXCEPT !.pc = "snap2"]
    ELSE Return(v)

\* mutant of PressKeys: the exception of the click is not caught
PressKeys_uncaught(v) ==
    IF v.calls # << >> /\ v.calls[Len(v.calls)].tool = v.click_tool
    THEN [v EXCEPT !.pc = "raised"]
    ELSE IF v.key_tool # "None" THEN [v EXCEPT !.pc = "key_V"]
    ELSE Return(v)

\* the click was not issued or raised: if not clicked and key_tool, the key
\* presses; else if not clicked, return out
PressKeys(v) ==
    IF v.key_tool # "None" THEN [v EXCEPT !.pc = "key_V"] ELSE Return(v)

\* from the end of the first snapshot loop to the click: the return without a
\* snapshot, the lookup of the button, the choice of the first trigger
LocateButtonRef(v) ==
    IF ~v.snap.dict /\ ~v.snap.has_text THEN Return(v)
    ELSE LET by_id == SelectSeq(_traverse(v.snap.root),
                                LAMBDA n : n.id = "verifyBtn" /\ n.ref # "None")
             in_tree == IF ~v.snap.dict THEN "None"
                        ELSE IF by_id # << >> THEN Head(by_id).ref
                        ELSE find_ref_by_name_and_role(v.snap.root, ButtonLabel, "button")
             btn_ref == IF in_tree = "None" /\ v.snap.has_text
                        THEN _extract_button_ref_from_yaml_text(v.snap.text, ButtonLabel)
                        ELSE in_tree
             located == [v EXCEPT !.btn_ref = btn_ref]
         IN IF v.click_tool # "None" /\ btn_ref # "None"
            THEN [located EXCEPT !.pc = "click"]
            ELSE PressKeys(located)

\* the head of the first snapshot loop up to the next await
RECURSIVE FirstSnapshotLoop(_)
FirstSnapshotLoop(v) ==
    IF ~v.snap.dict /\ ~v.snap.has_text /\ v.retries > 0
    THEN IF v.wait_tool # "None" THEN [v EXCEPT !.pc = "retry_wait"]
         ELSE IF v.snap_tool # "None" THEN [v EXCEPT !.pc = "retry_snap"]
         ELSE FirstSnapshotLoop([v EXCEPT !.retries = @ - 1])
    ELSE LocateButtonRef(v)

\* for step in actions: out[step["tool"]] = await conn.call_tool(...)
VisitActions ==
    /\ visit.pc = "action"
    /\ \E ok \in BOOLEAN :
          LET tool == Head(visit.todo)
              called == call_tool(visit, tool, "", 0, ok)
          IN \E shot \in (IF tool = visit.snap_tool THEN Snapshots.first
                          ELSE {visit.snap}) :
                LET stored == [called EXCEPT !.todo = Tail(@), !.snap = shot]
                IN visit' = IF ~ok THEN [called EXCEPT !.pc = "raised"]
                            ELSE IF stored.todo # << >> THEN stored
                            ELSE FirstSnapshotLoop(stored)
    /\ UNCHANGED notVisit

\* the body of the first snapshot loop: the wait, the capture, retries -= 1
VisitRetry ==
    /\ UNCHANGED notVisit
    /\ \E ok \in BOOLEAN :
          \/ /\ visit.pc = "retry_wait"
             /\ LET called == call_tool(visit, visit.wait_tool, "", 0, ok)
                IN visit' = IF ~ok THEN [called EXCEPT !.pc = "raised"]
                            ELSE IF visit.snap_tool # "None"
                            THEN [called EXCEPT !.pc = "retry_snap"]
                            ELSE FirstSnapshotLoop([called EXCEPT !.retries = @ - 1])
          \/ /\ visit.pc = "retry_snap"
             /\ \E shot \in Snapshots.first :
                   LET called == call_tool(visit, visit.snap_tool, "retry",
                                           FirstRetries + 1 - visit.retries, ok)
                   IN visit' = IF ~ok THEN [called EXCEPT !.pc = "raised"]
                               ELSE FirstSnapshotLoop([called EXCEPT !.snap = shot,
                                                                     !.retries = @ - 1])

\* the click by reference, in its try block
VisitClick ==
    /\ visit.pc = "click"
    /\ \E ok \in BOOLEAN :
          LET called == call_tool(visit, visit.click_tool, "", 0, ok)
          IN visit' = IF ok THEN AfterTrigger([called EXCEPT !.clicked = TRUE])
                      ELSE PressKeys(called)
    /\ UNCHANGED notVisit

\* for key in ("V", "Enter"): each press in its try block; the first that
\* returns ends the loop, and when neither did the function returns
VisitKey ==
    /\ visit.pc \in {"key_V", "key_Enter"}
    /\ \E ok \in BOOLEAN :
          LET key == IF visit.pc = "key_V" THEN "V" ELSE "Enter"
              called == call_tool(visit, visit.key_tool, key, 0, ok)
          IN visit' = IF ok THEN AfterTrigger([called EXCEPT !.clicked = TRUE])
                      ELSE IF key = "V" THEN [called EXCEPT !.pc = "key_Enter"]
                      ELSE Return(called)
    /\ UNCHANGED notVisit

\* the wait after the trigger, the verdict snapshot and its loop
VisitVerdict ==
    /\ UNCHANGED notVisit
    /\ \E ok \in BOOLEAN :
          \/ /\ visit.pc \in {"wait", "verdict_wait"}
             /\ LET called == call_tool(visit, visit.wait_tool, "", 0, ok)
                IN visit' = IF ~ok THEN [called EXCEPT !.pc = "raised"]
                            ELSE IF visit.pc = "verdict_wait"
                            THEN [called EXCEPT !.pc = "verdict_snap"]
                            ELSE IF visit.snap_tool # "None"
                            THEN [called EXCEPT !.pc = "snap2"]
                            ELSE Return(called)
          \/ /\ visit.pc \in {"snap2", "verdict_snap"}
             /\ \E shot \in Snapshots.verdict :
                   LET first == visit.pc = "snap2"
                       called == IF first
                                 THEN call_tool(visit, visit.snap_tool, "2", 0, ok)
                                 ELSE call_tool(visit, visit.snap_tool, "2.retry",
                                                VerdictRetries + 1 - visit.v_retries, ok)
                   IN visit' = IF ~ok THEN [called EXCEPT !.pc = "raised"]
                               ELSE ReadVerdict([called EXCEPT
                                      !.snap = shot,
                                      !.shots = Append(@, shot),
                                      !.v_retries = IF first THEN VerdictRetries
                                                    ELSE @ - 1])

\* try_visit(conn, url, actions) is called: the tool names, the four picks,
\* the actions invoke_server_node built from the same names
VisitInit ==
    \E available_tools \in VisitCatalogs :
        LET tool_names == ExecToolNames(available_tools)
        IN visit = [NoVisit EXCEPT
                      !.pc = "action",
                      !.wait_tool = _pick(tool_names, <<"browser_wait", "browser_wait_for">>),
                      !.snap_tool = _pick(tool_names, <<"browser_snapshot">>),
                      !.click_tool = _pick(tool_names, <<"browser_click">>),
                      !.key_tool = _pick(tool_names, <<"browser_press_key">>),
                      !.todo = build_actions(tool_names),
                      !.retries = FirstRetries]

VisitNext == VisitActions \/ VisitRetry \/ VisitClick \/ VisitKey \/ VisitVerdict

vars == <<loopVars, connVars, smokeVars, driveVars, parseVars, visit>>

Init == LoopInit /\ ConnInit /\ SmokeInit /\ DriveIdle /\ ParseIdle /\ visit = NoVisit

Next == select_candidates_node \/ Invoke \/ pick_next_node \/ Tick

Spec == Init /\ [][Next]_vars

LiveSpec == Spec /\ WF_vars(GraphStep)

\* one connector on its own: no graph run beside it
ConnStart == LoopIdle /\ ConnInit /\ SmokeInit /\ DriveIdle /\ ParseIdle /\ visit = NoVisit

ConnSpec == ConnStart /\ [][ConnNext]_vars

\* the header-negotiated client on its own
SmokeStart == LoopIdle /\ ConnInit /\ SmokeInit /\ DriveIdle /\ ParseIdle /\ visit = NoVisit

SmokeSpec == SmokeStart /\ [][SmokeNext]_vars

\* one turn of invoke_server_node with its connector
DriveStart == LoopIdle /\ DriveInit /\ SmokeInit /\ ParseIdle /\ visit = NoVisit

DriveSpec == DriveStart /\ [][DriveNext]_vars

\* one call of a snapshot helper
ParseStart == LoopIdle /\ ConnInit /\ SmokeInit /\ DriveIdle /\ ParseInit /\ visit = NoVisit

ParseSpec == ParseStart /\ [][ParseNext]_vars

\* one call of try_visit, the connector under it reduced to what each
\* call_tool returns or raises
VisitStart == LoopIdle /\ ConnInit /\ SmokeInit /\ DriveIdle /\ ParseIdle /\ VisitInit

VisitSpec == VisitStart /\ [][VisitNext]_vars

(***************************************************************************)
(* Properties of the loop.                                                 *)
(***************************************************************************)
SelectStep == node = "select" /\ node' = "invoke"
InvokeStep == node = "invoke" /\ node' # "invoke"
HasCand == idx < Len(shortlist)
Cand == shortlist[idx + 1].server_id
HealthyIds == { servers[i].id : i \in { j \in 1..Len(servers) : servers[j].healthy } }
IdSeq(entries) == [i \in 1..Len(entries) |-> entries[i].server_id]

\* C2: under fair scheduling of the graph's nodes, every run of
\* select -> invoke -> (pick_next -> invoke)* reaches Done.
C2_Terminates == <>(node = "done")

C2_Witness == node = "done" /\ invokes = 3 /\ idx = 2 /\ turn.kind = "no_more"

\* C3: a Done state carries a populated result or a non-empty last_error.
C3_DoneHasResultOrError ==
    node = "done" => (result.populated \/ last_error.kind # "none")

C3_Witness == node = "done" /\ ~result.populated /\ last_error.kind = "no_more"

\* C4: with A = max_attempts and L = len(shortlist) as Select left them, a run
\* executes Invoke at most max(A, 2L) times.
C4_InvokeBound ==
    sel.ran => invokes <= Max(max_attempts, 2 * Len(shortlist))

C4_Witness == node = "done" /\ sel.ran /\ Len(shortlist) = 2 /\ invokes = Len(shortlist) + 1

\* C5: while now < backoff-until of server s, Select's filter drops s (s is in
\* the shortlist only through the all-healthy fallback), and an Invoke whose
\* candidate is s opens no connector, records an error naming s, changes
\* nothing else and goes to Advance.
C5_BackoffExcludes ==
    [][ /\ SelectStep =>
             \A s \in DOMAIN backoff_until :
                 now < backoff_until[s] =>
                     /\ s \notin Ids(sel'.kept)
                     /\ (s \in Ids(shortlist') => sel'.fallback)
        /\ (InvokeStep /\ HasCand /\ now < BackoffGet(backoff_until, Cand, 0)) =>
             /\ ~turn'.opened
             /\ turn'.kind = "skip"
             /\ last_error' = Err("backoff", Cand)
             /\ servers' = servers
             /\ backoff_until' = backoff_until
             /\ result' = result
             /\ node' = "pick_next" ]_vars

C5_Witness ==
    /\ turn.kind = "skip"
    /\ ~turn.opened
    /\ sel.fallback
    /\ turn.server \notin Ids(sel.kept)
    /\ now < BackoffGet(backoff_until, turn.server, 0)
    /\ last_error = Err("backoff", turn.server)

\* C6: once now >= backoff-until of server s, Select keeps s and an Invoke whose
\* candidate is s opens a connector; if the attempt goes through without an
\* exception (tools discovered, every target visited) the loop ends in Done
\* with a result for s.
C6_EligibleAfterBackoff ==
    [][ /\ SelectStep =>
             \A s \in DOMAIN backoff_until :
                 (backoff_until[s] <= now /\ s \in HealthyIds
                    /\ s \in Ids(llm_chat_fn(servers))) => s \in Ids(shortlist')
        /\ (InvokeStep /\ HasCand /\ Cand \in DOMAIN backoff_until
              /\ backoff_until[Cand] <= now) =>
             /\ turn'.opened
             /\ turn'.kind # "skip"
             /\ (turn'.kind # "fail" /\ turn'.listed # {} /\ turn'.visit = "ok") =>
                   /\ result'.populated
                   /\ result'.server = Cand
                   /\ node' = "done" ]_vars

\* C7: a turn that completes without an exception (connect, tool discovery,
\* every target's sequence) removes the server's backoff entry, sets result to
\* the server's id and the per-target outputs, and ends the loop in Done.
C7_SuccessSetsResult ==
    [][ (InvokeStep /\ turn'.opened /\ turn'.kind # "fail"
           /\ turn'.listed # {} /\ turn'.visit = "ok") =>
             /\ turn'.server \notin DOMAIN backoff_until'
             /\ result'.populated
             /\ result'.server = turn'.server
             /\ DOMAIN result'.outputs = 1..Len(targets)
             /\ node' = "done" ]_vars

\* C8 as stated: a turn that raises sets backoff-until to now + d with
\* base <= d < 2 * base, records an error naming the server, sets no result and
\* goes to Advance.
C8_BackoffBelowTwiceBase ==
    [][ (InvokeStep /\ turn'.kind = "fail") =>
             /\ backoff_until'[turn'.server] = now' + turn'.wait
             /\ BackoffBase <= turn'.wait
             /\ turn'.wait < 2 * BackoffBase
             /\ last_error' = Err("failed", turn'.server)
             /\ result' = result
             /\ node' = "pick_next" ]_vars

\* C8 amended: as C8, with base <= d <= 2 * base (1 + random() rounds to 2.0
\* for the largest random()).
C8_BackoffWithinTwiceBase ==
    [][ (InvokeStep /\ turn'.kind = "fail") =>
             /\ turn'.server = Cand
             /\ backoff_until'[Cand] = now' + turn'.wait
             /\ \A s \in DOMAIN backoff_until' \ {Cand} :
                    s \in DOMAIN backoff_until /\ backoff_until'[s] = backoff_until[s]
             /\ BackoffBase <= turn'.wait
             /\ turn'.wait <= 2 * BackoffBase
             /\ last_error' = Err("failed", Cand)
             /\ result' = result
             /\ ~result'.populated
             /\ node' = "pick_next" ]_vars

C8_Witness ==
    /\ turn.kind = "fail"
    /\ node = "pick_next"
    /\ turn.wait = 2 * BackoffBase
    /\ backoff_until[turn.server] = now + turn.wait
    /\ last_error = Err("failed", turn.server)

\* C9: a no-tools outcome records an error naming the server, leaves the
\* backoff map as it was and goes to Advance.
C9_NoToolsNoBackoff ==
    [][ (InvokeStep /\ turn'.kind = "no_tools") =>
             /\ turn'.server = Cand
             /\ last_error' = Err("no_tools", Cand)
             /\ backoff_until' = backoff_until
             /\ result' = result
             /\ node' = "pick_next" ]_vars

C9_Witness ==
    /\ turn.kind = "no_tools"
    /\ turn.opened
    /\ turn.listed = {}
    /\ node = "pick_next"
    /\ last_error = Err("no_tools", turn.server)
    /\ turn.server \notin DOMAIN backoff_until

\* C10: after Select every shortlist entry is a healthy server of the catalog;
\* if a ranked entry is healthy and not in backoff the shortlist is exactly
\* those entries in ranked order, otherwise it is every healthy server in
\* catalog order; it is non-empty whenever a healthy server exists.
C10_SelectShortlist ==
    [][ SelectStep =>
          LET ranked == llm_chat_fn(servers)
              Eligible(x) == /\ x.server_id \in HealthyIds
                             /\ ~(now < BackoffGet(backoff_until, x.server_id, 0))
              eligible == SelectSeq(ranked, Eligible)
              Healthy(srv) == srv.healthy
              healthy == SelectSeq(servers, Healthy)
          IN /\ Ids(shortlist') \subseteq HealthyIds
             /\ IF eligible # << >>
                THEN shortlist' = eligible
                ELSE IdSeq(shortlist') = [i \in 1..Len(healthy) |-> healthy[i].id]
             /\ (HealthyIds # {} => shortlist' # << >>) ]_vars

C10_Witness ==
    /\ node = "invoke"
    /\ invokes = 0
    /\ sel.ran
    /\ ~sel.fallback
    /\ Len(servers) = 2
    /\ IdSeq(shortlist) = <<2>>
    /\ servers[1].healthy
    /\ now < BackoffGet(backoff_until, 1, 0)

\* C11: Select leaves idx = 0, attempts = 0 and max_attempts =
\* max(5, 2 * len(shortlist)), whatever the three were before.
C11_SelectResets ==
    [][ SelectStep =>
          /\ idx' = 0
          /\ attempts' = 0
          /\ max_attempts' = Max(MinBudget, 2 * Len(shortlist')) ]_vars

C11_Witness ==
    /\ sel.ran /\ sel.reset
    /\ node = "invoke" /\ invokes = 0
    /\ Len(shortlist) = 2
    /\ idx = 0 /\ attempts = 0 /\ max_attempts = MinBudget


\* C12: when every candidate of the shortlist raised during its turn, the loop
\* ends in Done with an empty result and a last_error naming the last server
\* that was attempted.
C12_AllRaiseKeepsLastError ==
    (node = "done" /\ sel.ran /\ Len(shortlist) > 0 /\ turn.fails = Len(shortlist)) =>
        /\ ~result.populated
        /\ last_error = FailError(shortlist[Len(shortlist)].server_id)

\* C13: a server whose discovered tools are navigate, snapshot and click, one
\* target, no verdict text in the first verdict snapshot and "PASS: success" in
\* the snapshot of the first retry: the loop ends with a populated result whose
\* output for the target is classified success = true.
C13_RetryFindsPass ==
    [][ (InvokeStep /\ turn'.opened /\ turn'.visit = "ok" /\ Len(targets) = 1
           /\ turn'.listed = {"browser_navigate", "browser_snapshot", "browser_click"}
           /\ turn'.page[1] = "None" /\ turn'.page[2] = VerdictPass) =>
          /\ node' = "done"
          /\ result'.populated
          /\ result'.outputs[1].verdict_struct.success = "yes" ]_vars

(***************************************************************************)
(* Properties of the header-negotiated client.                             *)
(***************************************************************************)
IsInitialize(q) == q.method = "initialize"
InitRequests == SelectSeq(sent, IsInitialize)
NumCandidates == Len(PROTO_CANDIDATES)
Accepted == spc \in {"notify", "list", "call", "done"}
RejectVersion == [kind |-> "reject_version", ver |-> "None", hdr |-> "None"]

\* the parts of C14 that do not depend on the value returned: the candidates
\* are offered in order, at most N of them; only a rejection for the version
\* moves to the next one; nothing is offered after an acceptance; the
\* negotiation error is raised when, and only when, all N were rejected
NegotiationOrder ==
    /\ [](/\ Len(InitRequests) <= NumCandidates
          /\ \A i \in 1..Len(InitRequests) : InitRequests[i].proto = PROTO_CANDIDATES[i]
          /\ (failure = "negotiation") =>
                 (tried = NumCandidates /\ Len(InitRequests) = NumCandidates)
          /\ (spc = "initialize" /\ tried = NumCandidates) => ~ENABLED Notify)
    /\ [][ /\ (tried' # tried) => (tried' = tried + 1 /\ initialize(RejectVersion))
           /\ (spc # "initialize") => (InitRequests' = InitRequests)
           /\ (spc = "initialize" /\ tried = NumCandidates) => failure' = "negotiation"
         ]_vars

\* C14 as stated: initialize tries the N candidates in order, moves on only
\* after a rejection for unsupported version, stops at the first accepted
\* candidate and returns that candidate, fails with the negotiation error once
\* all N are rejected, and sends at most N initialize requests.
C14_ReturnsAcceptedCandidate ==
    /\ NegotiationOrder
    /\ [](Accepted => proto = InitRequests[Len(InitRequests)].proto)

\* C14 amended: as above, but the version returned is the protocolVersion of
\* the server's result, and the accepted candidate only when the result has
\* none (or the same one).
C14_ReturnsNegotiatedVersion ==
    /\ NegotiationOrder
    /\ [][ \A r \in InitResponses :
             (tried < NumCandidates /\ initialize(r) /\ r.kind = "ok") =>
                 /\ spc' = "notify"
                 /\ sid' = r.hdr
                 /\ proto' = IF r.ver = OtherVersion THEN OtherVersion
                             ELSE PROTO_CANDIDATES[tried + 1] ]_vars

C14_Witness ==
    /\ spc = "notify"
    /\ Len(InitRequests) = NumCandidates
    /\ proto = OtherVersion
    /\ sid # "None"

C14_WitnessExhausted == failure = "negotiation" /\ Len(sent) = NumCandidates

\* C15 for smoke.py: every tools/list and tools/call request comes after a
\* notifications/initialized request.
SmokeAckFirst ==
    \A i \in 1..Len(sent) :
        sent[i].method \in {"tools/list", "tools/call"} =>
            \E j \in 1..(i - 1) : sent[j].method = "notifications/initialized"

\* C16: a call that finds the session invalid (404 while a session id is held)
\* makes the client negotiate again once and retry; the session-expired error
\* leaves the client only after that second negotiation.
C16_RenegotiatesOnce ==
    (failure = "session_expired") =>
        \E i, j \in 1..Len(sent) :
            /\ i < j
            /\ sent[i].method \in {"tools/list", "tools/call"}
            /\ sent[j].method = "initialize"

(***************************************************************************)
(* Properties of the connector.                                            *)
(***************************************************************************)
DeliverStep(i) == ev'.op = "deliver" /\ ev'.id = i
FutUnchangedExcept(i) == \A j \in CallIds \ {i} : fut'[j] = fut[j]

\* C1 as stated: a delivery whose id is in the pending map removes the entry
\* and fulfills its waiter; no waiter is fulfilled more than once; a delivery
\* whose id is not pending changes neither the pending map nor any waiter.
C1_DeliveryFulfilsPending ==
    [][ /\ \A j \in CallIds : fut'[j].n <= 1
        /\ \A i \in WireIds \cup {-1} : DeliverStep(i) =>
             IF i \in _pending
             THEN /\ _pending' = _pending \ {i}
                  /\ ~Done(fut[i])
                  /\ fut'[i].state = "result"
                  /\ FutUnchangedExcept(i)
             ELSE _pending' = _pending /\ fut' = fut ]_vars

\* C1 amended: a delivery whose id is in the pending map removes the entry and
\* fulfills its waiter unless that waiter is already done (cancelled by the
\* timeout of wait_for), which it leaves as it is.
C1_DeliveryFulfilsOnce ==
    [][ /\ \A j \in CallIds : fut'[j].n <= 1
        /\ \A i \in WireIds \cup {-1} : DeliverStep(i) =>
             IF i \in _pending
             THEN /\ _pending' = _pending \ {i}
                  /\ IF Done(fut[i]) THEN fut'[i] = fut[i]
                     ELSE fut'[i].state = "result" /\ fut'[i].n = 1
                  /\ FutUnchangedExcept(i)
             ELSE _pending' = _pending /\ fut' = fut ]_vars

C1_Witness ==
    /\ ev = Event("deliver", 1)
    /\ call[1] = "timing_out"
    /\ fut[1].state = "cancelled"
    /\ 1 \notin _pending
    /\ fut[2].state = "result"
    /\ call[2] = "returned_sse"

Returned(i) == call[i] \in {"returned_inline", "returned_inline_other_id", "returned_sse"}

\* C15: once initialize was accepted, the client sends notifications/initialized
\* before any other call: every request other than initialize has a
\* notifications/initialized request before it.
C15_AckBeforeOtherCalls ==
    [][ \A i \in CallIds :
          (Returned(1) /\ call[i] = "idle" /\ call'[i] = "posting"
             /\ Method(i) # "initialize") =>
              \E j \in 1..Len(ConnSent) : ConnSent[j] = "notifications/initialized" ]_vars

\* C17: every call gets an id greater than the id of every earlier call,
\* starting at 1: the id of a starting call was never used, whatever became of
\* the earlier calls.
C17_IdsIncrease ==
    [][ \A i \in CallIds :
          (call'[i] = "posting" /\ call[i] # "posting") =>
              /\ call[i] = "idle"
              /\ fut[i] = NoFuture
              /\ \A j \in CallIds : (call[j] # "idle") <=> (j < i) ]_vars

C17_Witness ==
    /\ call[1] = "raised_timeout"
    /\ call[2] = "posting"
    /\ _pending = {2}
    /\ _next_id = 3

\* C18: a call whose wait timed out fails with the timeout error and its id
\* leaves the pending map; a delivery for that id after the timeout fulfils no
\* waiter, of that call or of another.
TimedOut(i) == call[i] \in {"timing_out", "raised_timeout"}

C18_TimeoutDropsLateDelivery ==
    /\ [](\A i \in CallIds :
            call[i] = "raised_timeout" => (i \notin _pending /\ fut[i].state = "cancelled"))
    /\ [][ \A i \in CallIds :
             /\ (call[i] = "timing_out" /\ call'[i] # "timing_out") =>
                    call'[i] = "raised_timeout"
             /\ (TimedOut(i) /\ DeliverStep(i)) =>
                    (fut' = fut /\ call' = call /\ i \notin _pending') ]_vars

C18_Witness ==
    /\ call[1] = "raised_timeout"
    /\ ev = Event("deliver", 1)
    /\ call[2] = "waiting"
    /\ fut[2].state = "pending"
    /\ _pending = {2}

\* C19: shutdown stops the reader, fails every waiter of the pending map that
\* is not done with the connection-closed error, and empties the map; once
\* shutdown has begun no waiter gets a result.
C19_ShutdownFailsWaiters ==
    /\ [](closing # "no" => _sse_task # "running")
    /\ [][ /\ (closing = "reader_cancelled" /\ closing' # closing) =>
                /\ _pending' = {}
                /\ \A i \in CallIds :
                     fut'[i] = IF i \in _pending /\ fut[i].state = "pending"
                               THEN [state |-> "exception", obj |-> "closed", n |-> 1]
                               ELSE fut[i]
           /\ (closing # "no") =>
                \A i \in CallIds : fut'[i].state = "result" => fut[i].state = "result"
         ]_vars

C19_Witness ==
    /\ closing = "done"
    /\ fut[1].state = "exception"
    /\ call[1] = "raised_closed"
    /\ fut[2].state = "result"
    /\ _pending = {}

\* C23: the session id is set by the first chunk of the push channel that
\* carries one, and once set it never changes, whatever later chunks carry.
C23_SessionIdSetOnce ==
    /\ [][ _session_id # "None" => _session_id' = _session_id ]_vars
    /\ [][ (ev'.op = "deliver" /\ ev'.sid # "None" /\ _session_id = "None") =>
              _session_id' = ev'.sid ]_vars
    /\ [][ _session_id' # _session_id =>
              (ev'.op = "deliver" /\ ev'.sid = _session_id') ]_vars

\* a later greeting with another session id was handled and ignored
C23_Witness ==
    /\ _session_id = "sidA"
    /\ ev.op = "deliver" /\ ev.sid = "sidB"

\* C20: a call returns a result only from an envelope that carries the call's
\* own id, inline or through the push channel.
C20_ResultFromOwnEnvelope ==
    \A i \in CallIds :
        /\ call[i] # "returned_inline_other_id"
        /\ call[i] = "returned_sse" => (fut[i].state = "result" /\ fut[i].obj = "result")

(***************************************************************************)
(* Properties of the connector under invoke_server_node, and of its POSTs  *)
(***************************************************************************)
FixedOrder == <<"mcp", "messages", "mcp?sid", "messages?sid">>
\* this step POSTs the request of call i to the next variant
PostStep(i) == call[i] = "posting" /\ pos' = pos + 1
\* this step starts call i
StartStep(i) == call[i] = "idle" /\ call'[i] = "posting"

\* the order part of C21: with no variant remembered a call gets the variants
\* in the fixed order, the session-suffixed ones exactly when a session id is
\* known, and its POSTs go through them one by one
ProbingOrder ==
    [][ /\ \A i \in CallIds :
              (StartStep(i) /\ _last_working_label = "None") =>
                  /\ pos' = 0
                  /\ variants' = IF _session_id # "None" THEN FixedOrder
                                 ELSE SubSeq(FixedOrder, 1, 2)
        /\ pos' \in {0, pos, pos + 1}
        /\ pos' <= Len(variants') ]_vars

\* C21 as stated: for one call the POST variants are tried in the fixed order;
\* a variant that yields a not-found status or a body that does not decode
\* makes the client try the next one, the first variant with a body that
\* decodes ends the probing, and the call fails once all variants are used up.
C21_ProbingByBody ==
    /\ ProbingOrder
    /\ [][ \A i \in CallIds :
             (PostStep(i) /\ resp'.status # PostRaised.status) =>
                /\ (resp'.status = 404 \/ resp'.obj = "None") =>
                      IF pos' < Len(variants) THEN call'[i] = "posting"
                      ELSE call'[i] = "raised_post"
                /\ (resp'.status # 404 /\ resp'.obj # "None") =>
                      call'[i] \notin {"posting", "raised_post"} ]_vars

\* C21, amended: any status other than 200, or a 200 body that does not
\* decode, makes the client try the next variant; the first variant with
\* status 200 and a body that decodes ends the probing; the call fails with
\* an error once all variants are used up.
C21_ProbingByStatusAndBody ==
    /\ ProbingOrder
    /\ [][ \A i \in CallIds :
             (PostStep(i) /\ resp'.status # PostRaised.status) =>
                /\ (resp'.status # 200 \/ resp'.obj = "None") =>
                      IF pos' < Len(variants) THEN call'[i] = "posting"
                      ELSE call'[i] = "raised_post"
                /\ (resp'.status = 200 /\ resp'.obj # "None") =>
                      call'[i] \notin {"posting", "raised_post"} ]_vars

\* a session id is known, the first two variants were turned down and the
\* third answered 200 with a result
C21_Witness ==
    /\ Len(variants) = 4 /\ pos = 3
    /\ call[1] = "returned_inline"
    /\ resp = [status |-> 200, obj |-> "result"]

\* C22: after a call that succeeded through variant v, its result inline or
\* from the push channel, the next call tries v first and the other variants
\* after it in their fixed order.
C22_NextCallStartsWithLast ==
    [][ \A i \in CallIds \ {1} :
          (StartStep(i) /\ CallReturned(i - 1)) =>
              LET v == variants[pos]
                  base == BaseVariants(_session_id)
              IN variants' = <<v>> \o SelectSeq(base, LAMBDA x : x # v) ]_vars

\* the waiter of call i was handed an envelope with an error member
HoldsError(i) == fut[i].state = "result" /\ fut[i].obj = "error"
\* this step's POST of call i came back with an envelope with an error member
InlineError(i) == PostStep(i) /\ resp'.status = 200 /\ resp'.obj = "error"

\* C24 as stated: when the response envelope of a call carries an error
\* member, inline or through the push channel, the call fails with the error
\* that names the method and the remote error, returns no result, and leaves
\* no pending entry for its id.
C24_ErrorEnvelopeFailsCall ==
    /\ [](\A i \in CallIds :
            (HoldsError(i) /\ (CallReturned(i) \/ CallRaised(i))) =>
                (call[i] = "raised_remote" /\ i \notin _pending))
    /\ [][ \A i \in CallIds :
             InlineError(i) => (call'[i] = "raised_remote" /\ i \notin _pending') ]_vars

\* C24, amended: the envelope with the error member is the one the POST of
\* the call returned, or one the push channel delivered for the call's id
\* while the call was waiting for it; then the call fails with the error that
\* names the method and the remote error, and its id is not pending.
C24_ErrorFailsWaitingCall ==
    /\ [](\A i \in CallIds : call[i] = "raised_remote" => i \notin _pending)
    /\ [][ \A i \in CallIds :
             (call[i] = "waiting" /\ HoldsError(i) /\ call'[i] # call[i]) =>
                 call'[i] = "raised_remote" ]_vars
    /\ [][ \A i \in CallIds :
             InlineError(i) => (call'[i] = "raised_remote" /\ i \notin _pending') ]_vars

\* tools/list waited for the push channel, which delivered an error envelope
C24_Witness ==
    /\ call[2] = "raised_remote"
    /\ HoldsError(2)
    /\ 2 \notin _pending

(***************************************************************************)
(* Claims about the snapshot helpers, checked under ParseSpec              *)
(***************************************************************************)
\* whether some node of the tree has the id
RECURSIVE HasId(_, _)
HasId(tree, id) ==
    tree.id = id \/ \E i \in 1..Len(tree.children) : HasId(tree.children[i], id)

\* the first node with the id in document order, for a tree that has one
RECURSIVE FirstWithId(_, _)
FirstWithId(tree, id) ==
    IF tree.id = id THEN tree
    ELSE LET k == CHOOSE i \in 1..Len(tree.children) :
                     /\ HasId(tree.children[i], id)
                     /\ \A j \in 1..(i - 1) : ~HasId(tree.children[j], id)
         IN FirstWithId(tree.children[k], id)

\* field values that are missing, no text, or blank text
Unset == {"None", NotStr, "", " "}
Unpopulated(n) ==
    n.name \in Unset /\ n.value \in Unset /\ n.description \in Unset /\ n.text \in Unset

\* C25: extract_text_by_id returns None exactly when no node of the tree has
\* the id, and "" exactly when the first node with the id has no non-blank
\* text in any of its text fields
C25_AbsentVersusEmpty ==
    fn = "extract_text_by_id" =>
        /\ ret.text = "None" <=> ~HasId(arg.tree, "verdict")
        /\ ret.text = "" <=> (/\ HasId(arg.tree, "verdict")
                              /\ Unpopulated(FirstWithId(arg.tree, "verdict")))

\* the node with the id lies two levels down, has no text, and a later node
\* with the same id has one
C25_Witness ==
    /\ fn = "extract_text_by_id"
    /\ ret.text = ""
    /\ arg.tree.id # "verdict"
    /\ Len(arg.tree.children) = 2
    /\ arg.tree.children[1].id # "verdict"
    /\ Len(arg.tree.children[1].children) = 1
    /\ arg.tree.children[1].children[1] = Leaf("verdict", "", " ", "None", "None")
    /\ arg.tree.children[2] = Leaf("verdict", "None", "None", "None", "PASS: success")

\* the reference of the labelled button of a screen
ButtonRef(screen) ==
    Refs[CHOOSE i \in 1..Len(screen.els) : screen.els[i] = TheButton]

\* C26: for one screen with one labelled button, the lookup by name and role
\* in the tree encoding and the lookup by label in the fenced text encoding
\* give the same reference, the button's
C26_SameReference ==
    fn = "locate_button" =>
        (ret.json = ret.yaml /\ ret.json = ButtonRef(arg.screen))

\* the button comes third, after a heading with the same label and its child
C26_Witness ==
    /\ fn = "locate_button"
    /\ arg.screen.nested
    /\ arg.screen.els = <<Element("heading", ButtonLabel), Element("link", ButtonLabel),
                          TheButton>>
    /\ ret.json = "s1e5"
    /\ ret.yaml = "s1e5"

\* the texts that contain "pass", and those that contain "fail" or "error",
\* in any case of letters
SaysPass ==
    {"PASS: success", "pass", "Passed", "PaSs", "bypass", "fail, then pass",
     "error: not passed"}
SaysFailOrError ==
    {"FAIL: bot", "failed", "Error 500", "ERROR", "fail", "error", "fail, then pass",
     "error: not passed"}

\* C27: parse_verdict_text gives success for a text containing "pass" in any
\* case, failure for another text containing "fail" or "error", and
\* undetermined for any other text, a missing one and an empty one
C27_VerdictClasses ==
    fn = "parse_verdict_text" =>
        /\ ret.verdict.raw = arg.verdict
        /\ ret.verdict.success =
              IF arg.verdict \in SaysPass THEN "yes"
              ELSE IF arg.verdict \in SaysFailOrError THEN "no"
              ELSE "None"

\* a text with "error" and, in capitals inside a word, "pass"
C27_Witness ==
    /\ fn = "parse_verdict_text"
    /\ arg.verdict = "error: not passed"
    /\ ret.verdict.success = "yes"

Unfulfilled == { i \in _pending : ~Done(fut[i]) }

C30_ExhaustedFallbacksFail ==
    [][ (InvokeStep /\ turn'.opened /\ turn'.visit = "ok" /\ Len(targets) > 0
           /\ "browser_click" \in turn'.listed /\ turn'.click = "raise") =>
          (turn'.kind = "fail" /\ ~result'.populated) ]_vars

(***************************************************************************)
(* Further properties of the loop, checked under Spec                      *)
(***************************************************************************)
\* C31: when tools/list returned at least one named tool, the tool-name set
\* Invoke derives holds exactly the discovered names, and the turn does not
\* take the no-tools outcome
C31_NoToolsOnlyWhenCatalogEmpty ==
    [][ (InvokeStep /\ turn'.opened /\ turn'.listed # {}) =>
          /\ ExecToolNames(list_tools(turn'.listed)) = turn'.listed
          /\ turn'.kind # "no_tools" ]_vars

\* C32: after Select, the number of Invoke steps made equals the cursor when
\* Invoke is next and is one more once it ran, so the positions before the
\* cursor were each attempted once, in order; idx and attempts never decrease,
\* Advance adds one to each and nothing else changes them; Invoke attempts
\* the candidate at the cursor
C32_CursorInOrder ==
    /\ [](sel.ran => /\ (node = "invoke" => invokes = idx)
                     /\ (node \in {"pick_next", "done"} => invokes = idx + 1))
    /\ [][ sel.ran =>
             /\ idx' >= idx /\ attempts' >= attempts
             /\ (node = "pick_next" /\ node' # node) =>
                   (idx' = idx + 1 /\ attempts' = attempts + 1 /\ node' = "invoke")
             /\ node # "pick_next" => (idx' = idx /\ attempts' = attempts)
             /\ (InvokeStep /\ HasCand) => turn'.server = Cand ]_vars

\* the second candidate has been attempted, after the first
C32_Witness ==
    /\ sel.ran /\ node = "pick_next"
    /\ Len(shortlist) = 2 /\ idx = 1 /\ attempts = 1 /\ invokes = 2
    /\ turn.server = shortlist[2].server_id

\* C37: after Select, idx = attempts and max_attempts > len(shortlist), so
\* attempts stays below max_attempts and the cursor within the shortlist or
\* just past it; the run is at Done only with a populated result or with the
\* cursor at or past the end of the shortlist
C37_BudgetNeverForcesDone ==
    sel.ran =>
        /\ idx = attempts
        /\ max_attempts > Len(shortlist)
        /\ attempts < max_attempts
        /\ idx <= Len(shortlist)
        /\ node = "done" => (result.populated \/ idx >= Len(shortlist))

\* a run over two candidates that ended past the end of the shortlist,
\* with budget to spare
C37_Witness ==
    /\ sel.ran /\ node = "done"
    /\ Len(shortlist) = 2 /\ idx = 2 /\ attempts = 2 /\ max_attempts = MinBudget
    /\ ~result.populated

\* C39: every entry of the shortlist Select produced names a server of the
\* catalog, and no Invoke step ends in the KeyError of find_server
C39_ShortlistNamesCatalog ==
    /\ [](sel.ran => \A i \in 1..Len(shortlist) :
                        find_server(servers, shortlist[i].server_id) # 0)
    /\ [][ InvokeStep => (node' # "aborted" /\ turn'.kind # "key_error") ]_vars

\* the shortlist is the fallback list, and its second server was resolved
C39_Witness ==
    /\ sel.ran /\ sel.fallback
    /\ Len(shortlist) = 2
    /\ turn.kind \in {"fail", "no_tools"} /\ turn.server = 2

\* C40: an Invoke step changes no backoff entry but the candidate's and leaves
\* idx, attempts, max_attempts, shortlist and targets as they are; an Advance
\* step changes idx and attempts and nothing else of the state
C40_FrameOfInvokeAndAdvance ==
    [][ /\ InvokeStep =>
             /\ UNCHANGED <<idx, attempts, max_attempts, shortlist, targets>>
             /\ \A id \in 1..MaxServers :
                   id # turn'.server =>
                      /\ id \in DOMAIN backoff_until' <=> id \in DOMAIN backoff_until
                      /\ BackoffGet(backoff_until', id, 0) = BackoffGet(backoff_until, id, 0)
        /\ (node = "pick_next" /\ node' # node) =>
             /\ idx' # idx /\ attempts' # attempts
             /\ UNCHANGED <<servers, targets, shortlist, max_attempts, last_error, result,
                            backoff_until>> ]_vars

\* the turn of server 2 failed while server 1 had a backoff entry of its own
C40_Witness ==
    /\ turn.kind = "fail" /\ turn.server = 2
    /\ DOMAIN backoff_until = {1, 2}
    /\ backoff_until[1] = BackoffBase
    /\ backoff_until[2] > backoff_until[1]

(***************************************************************************)
(* Further properties of the connector                                     *)
(***************************************************************************)
\* C35: whenever a call on the connector has returned or raised (inline
\* result, push-channel result, remote error, timeout, or failure of every
\* POST variant), the pending map holds no entry for the id of that call.
\* Read on DriveSpec: when every variant of the POST failed, _rpc is left by
\* the MCPError of _post_rpc with the entry still in the map.
C35_NoEntryAfterCall ==
    \A i \in CallIds : (CallReturned(i) \/ CallRaised(i)) => i \notin _pending

CallsBound == 3 + 2 * FirstRetries + 3 + 2 + 2 * VerdictRetries

\* C33: within the sequence of one target a key press is issued only after
\* the click by reference was unavailable (no click tool or no reference) or
\* raised, and Enter only after V raised; once a click or a key press has
\* returned no further click or key press is issued; a click or key press
\* that raises does not end the visit by its exception, and the next
\* fallback that remains is the next call.
C33_FallbackOrder ==
    [][ LET n == Len(visit.calls)
            new == visit'.calls[n + 1]
            IsClick(c) == c.tool = visit.click_tool /\ c.tag = ""
            IsKey(c) == c.tool = visit.key_tool /\ c.tag \in {"V", "Enter"}
            before == { visit.calls[i] : i \in 1..n }
        IN /\ IsKey(new) =>
                /\ \/ visit.click_tool = "None"
                   \/ visit.btn_ref = "None"
                   \/ \E c \in before : IsClick(c) /\ ~c.ok
                /\ new.tag = "Enter" => \E c \in before : IsKey(c) /\ c.tag = "V" /\ ~c.ok
           /\ (\E c \in before : (IsClick(c) \/ IsKey(c)) /\ c.ok) =>
                ~(IsClick(new) \/ IsKey(new))
           /\ ((IsClick(new) \/ IsKey(new)) /\ ~new.ok) =>
                /\ visit'.pc # "raised"
                /\ (IsClick(new) /\ visit.key_tool # "None") => visit'.pc = "key_V"
                /\ new.tag = "V" => visit'.pc = "key_Enter" ]_vars

\* the click raised, V raised, Enter returned
C33_Witness ==
    /\ Len(visit.calls) >= 3
    /\ LET n == Len(visit.calls)
       IN /\ visit.calls[n - 2].tool = visit.click_tool /\ ~visit.calls[n - 2].ok
          /\ visit.calls[n - 1].tag = "V" /\ ~visit.calls[n - 1].ok
          /\ visit.calls[n].tag = "Enter" /\ visit.calls[n].ok
    /\ visit.clicked

\* C34: both snapshot retry loops of a visit are bounded. The first snapshot
\* is captured again at most FirstRetries times and only while no tree and no
\* text was obtained; the verdict snapshot is captured again at most
\* VerdictRetries times and only while the verdict text is absent or empty.
\* Every step of the visit is one more call, a visit that has not returned or
\* raised has a next step, and no visit issues more than CallsBound calls: it
\* terminates whatever the calls return.
C34_BoundedRetries ==
    /\ [](/\ Cardinality({ i \in DOMAIN visit.calls : visit.calls[i].tag = "retry" })
                <= FirstRetries
          /\ Cardinality({ i \in DOMAIN visit.calls : visit.calls[i].tag = "2.retry" })
                <= VerdictRetries
          /\ Len(visit.calls) <= CallsBound
          /\ visit.pc \notin {"idle", "returned", "raised"} => ENABLED VisitNext)
    /\ [][ LET new == visit'.calls[Len(visit.calls) + 1]
           IN /\ Len(visit'.calls) = Len(visit.calls) + 1
              /\ new.tag = "retry" =>
                    (~visit.snap.dict /\ ~visit.snap.has_text /\ new.n \in 1..FirstRetries)
              /\ new.tag = "2.retry" =>
                    (visit.verdict_text \in {"None", ""} /\ new.n \in 1..VerdictRetries) ]_vars

\* a visit of CallsBound calls has returned: both loops ran to their bound
C34_Witness ==
    /\ visit.pc = "returned"
    /\ Len(visit.calls) = CallsBound
    /\ \E i \in DOMAIN visit.calls : visit.calls[i].tag = "retry" /\ visit.calls[i].n = FirstRetries
    /\ \E i \in DOMAIN visit.calls :
          visit.calls[i].tag = "2.retry" /\ visit.calls[i].n = VerdictRetries

\* C38: if a verdict snapshot captured for a target, the one after the click
\* or one of its retries, holds the verdict node with a text that is not
\* empty, the output of the visit records that verdict and its
\* classification. Read on the visits that returned: the snapshot of the last
\* retry is captured and never examined.
C38_EveryVerdictSnapshotExamined ==
    visit.pc = "returned" =>
        \A i \in DOMAIN visit.shots :
            LET text == IF visit.shots[i].dict
                        THEN extract_text_by_id(visit.shots[i].root, "verdict")
                        ELSE "None"
            IN text \notin {"None", ""} =>
                  /\ visit.verdict \notin {"None", ""}
                  /\ visit.verdict_struct = parse_verdict_text(visit.verdict)

====
